---------------------------- MODULE Spec2Model ----------------------------
(***************************************************************************)
(* Model of ibm-igc-lineage: the FlowHandler document queries and edits,    *)
(* the identity strings, the column-level pivot customisation sweep of      *)
(* samples/createColumnLevelPivots.js, and OMDHandler.replaceHostname.      *)
(*                                                                          *)
(* Text is modelled as a sequence of lexemes (a name is <<"T">>, an         *)
(* identity is <<"_ngo:table:", "_ngo:db:", "h", "::", ...>>); toLowerCase  *)
(* and replace act lexeme by lexeme.  Document ids (the ID attribute) hold  *)
(* no blank, so a blank-joined id list is a sequence of ids.                *)
(***************************************************************************)
EXTENDS Integers, Sequences, FiniteSets, TLC

VARIABLES
    doc,                      \* FlowHandler._doc: assets and the ENTRY / EXIT / SYSTEM flow sections
    doc0,                     \* the flow document text as read from the input file
    nsMatch,                  \* whether the namespaced XPath matches elements made by createElement
    pivotColumns,             \* keys of the JSON map of column RIDs that need custom lineage
    bHasBeenCustomised,
    id_gen,
    ds_rid_gen,
    hmObjectIdentitiesToIds,
    innerFlows,               \* the SYSTEM flows selected when the sweep starts (positions in doc.system)
    pc,                       \* position of the script
    i,                        \* index into innerFlows (1-based)
    aSourceIDs, aTargetIDs,   \* the split sourceIDs / targetIDs of the edge being resolved
    si, tj,                   \* loop indexes of resolveSourceToTargetMappings (1-based)
    bSourceIsPivot, bTargetIsPivot,
    eSource,                  \* position in doc.assets of the store column resolved for the source
    passes,                   \* number of sweeps started, over all runs of the script
    sweeps,                   \* number of sweeps started over the document in memory
    prevRun,                  \* how the previous run of the script ended and what it left
    idDoc,                    \* identity strings: the flow document the FlowHandler holds
    idColName, idTableId,     \* identity strings: a column name and the ID of a table asset
    idDirect, idViaTable,     \* identity strings: the results of the two ways to the column identity
    idOtherName,              \* identity strings: a second table name
    idTable, idOtherTable,    \* identity strings: the table identities of T's name and of the second name
    omd,                      \* OMDHandler._doc: the run document
    omd0,                     \* OMDHandler._omdOriginal: the run document as parsed
    omdBefore,                \* the run document as it was when replaceHostname was last called
    omdStatus,                \* "parsed", or how the last call of replaceHostname ended
    targetHostname,           \* the argument of the last call of replaceHostname
    calls,                    \* number of calls of replaceHostname
    runA, runB,               \* runtime identity: two run documents
    identityA, identityB,     \* runtime identity: what getUniqueRuntimeIdentity returned for each
    originalFlows,            \* hook: the files of /data/semanticLineage/originalFlows/ by file name
    mappedSource,             \* hook: the files of /data/semanticLineage/mappedFlows/source/
    mappedOutput,             \* hook: the files of /data/semanticLineage/mappedFlows/output/
    defaultCharset,           \* hook: the default charset of the Java platform
    origXml,                  \* hook: the flow XML of the invocation of getTweakedFlow
    tweakedFlow,              \* hook: flow XML, status and message of the TweakableFlow being built
    hookPc,                   \* hook: position of getTweakedFlow, or how the last invocation ended
    hookCalls,                \* hook: number of invocations of getTweakedFlow
    scriptPc,                 \* hook: position of a run of the customisation script
    xmldata,                  \* hook: the flow XML the running script read from its input file
    scriptRuns,               \* hook: number of runs of the customisation script
    catalog,                  \* workbook: the assets the catalog holds, by asset type
    wsRows,                   \* workbook: the rows added to each worksheet
    requests,                 \* workbook: the requests to the catalog that are not yet answered
    writtenAssetTypes,        \* workbook: the array of each call of populateWithExistingAssets
    completions,              \* workbook: the invocations of the completion callback, in order
    popStatus,                \* workbook: how the last call of populateWithExistingAssets ended
    popCalls,                 \* workbook: number of calls of populateWithExistingAssets
    failures,                 \* workbook: the requests the catalog answered with an error
    flowSection,              \* addFlow: the flows of the section that addFlow is called on
    flowBefore,               \* addFlow: the flows of the section before the last call
    flowArgs,                 \* addFlow: the arguments of the last call
    flowCalls                 \* addFlow: number of calls

passVars == <<doc, doc0, nsMatch, pivotColumns, bHasBeenCustomised, id_gen, ds_rid_gen,
              hmObjectIdentitiesToIds, innerFlows, pc, i, aSourceIDs, aTargetIDs, si, tj,
              bSourceIsPivot, bTargetIsPivot, eSource, passes, sweeps, prevRun>>

identityVars == <<idDoc, idColName, idTableId, idDirect, idViaTable, idOtherName, idTable, idOtherTable>>

omdVars == <<omd, omd0, omdBefore, omdStatus, targetHostname, calls>>

runtimeVars == <<runA, runB, identityA, identityB>>

hookVars == <<originalFlows, mappedSource, mappedOutput, defaultCharset, origXml, tweakedFlow,
              hookPc, hookCalls, scriptPc, xmldata, scriptRuns>>

workbookVars == <<catalog, wsRows, requests, writtenAssetTypes, completions, popStatus, popCalls,
                  failures>>

flowVars == <<flowSection, flowBefore, flowArgs, flowCalls>>

exceptPass == <<identityVars, omdVars, runtimeVars, hookVars, workbookVars, flowVars>>

exceptIdentity == <<passVars, omdVars, runtimeVars, hookVars, workbookVars, flowVars>>

exceptOMD == <<passVars, identityVars, runtimeVars, hookVars, workbookVars, flowVars>>

exceptRuntime == <<passVars, identityVars, omdVars, hookVars, workbookVars, flowVars>>

exceptHook == <<passVars, identityVars, omdVars, runtimeVars, workbookVars, flowVars>>

exceptWorkbook == <<passVars, identityVars, omdVars, runtimeVars, hookVars, flowVars>>

exceptFlow == <<passVars, identityVars, omdVars, runtimeVars, hookVars, workbookVars>>

-----------------------------------------------------------------------------
(* Text *)

LowerOf ==
    [c \in {"T", "U", "S", "D", "H", "X", "Y", "Z", "W", "DB2"} |->
        CASE c = "T" -> "t" [] c = "U" -> "u" [] c = "S" -> "s" [] c = "D" -> "d"
          [] c = "H" -> "h" [] c = "X" -> "x" [] c = "Y" -> "y" [] c = "Z" -> "z"
          [] c = "W" -> "w"
          [] c = "DB2" -> "db2"]

toLowerCase(s) ==
    [k \in DOMAIN s |-> IF s[k] \in DOMAIN LowerOf THEN LowerOf[s[k]] ELSE s[k]]

\* String.prototype.replace with a string pattern: the first occurrence only
replace(s, pat, rep) ==
    IF \E k \in DOMAIN s : s[k] = pat
    THEN LET k == CHOOSE n \in DOMAIN s : s[n] = pat /\ \A m \in 1..(n - 1) : s[m] # pat
         IN  SubSeq(s, 1, k - 1) \o rep \o SubSeq(s, k + 1, Len(s))
    ELSE s

Undefined == "undefined"

-----------------------------------------------------------------------------
(* FlowHandler: queries *)

\* an element parsed from the document always matches; one made by createElement
\* carries no namespace and matches the flowdoc: name test only if nsMatch
Visible(e) == (~e.created) \/ nsMatch

\* position of the first asset with the given ID, 0 when the query is empty
getAssetById(d, id) ==
    IF \E k \in DOMAIN d.assets : d.assets[k].ID = id /\ Visible(d.assets[k])
    THEN CHOOSE k \in DOMAIN d.assets :
            /\ d.assets[k].ID = id /\ Visible(d.assets[k])
            /\ \A m \in 1..(k - 1) : ~(d.assets[m].ID = id /\ Visible(d.assets[m]))
    ELSE 0

getAssetName(asset) == asset.repr

getAssetRID(asset) == asset.externalID

getParentAssetId(asset) == asset.parent

\* position in the section of the first flow whose sourceIDs attribute equals sourceId
getSubflowBySourceId(flows, sourceId) ==
    IF \E k \in DOMAIN flows : flows[k].sourceIDs = sourceId /\ Visible(flows[k])
    THEN CHOOSE k \in DOMAIN flows :
            /\ flows[k].sourceIDs = sourceId /\ Visible(flows[k])
            /\ \A m \in 1..(k - 1) : ~(flows[m].sourceIDs = sourceId /\ Visible(flows[m]))
    ELSE 0

FirstByTargetId(flows, targetId) ==
    IF \E k \in DOMAIN flows : flows[k].targetIDs = targetId /\ Visible(flows[k])
    THEN CHOOSE k \in DOMAIN flows :
            /\ flows[k].targetIDs = targetId /\ Visible(flows[k])
            /\ \A m \in 1..(k - 1) : ~(flows[m].targetIDs = targetId /\ Visible(flows[m]))
    ELSE 0

\* null, as returned by the two lookups below (no attribute of a document is empty)
Null == <<>>

\* the sourceIDs attribute of the ENTRY flow whose targetIDs is the job column, or null
getRepositoryIdFromDSSourceId(entryFlows, DSSourceId) ==
    LET k == FirstByTargetId(entryFlows, <<DSSourceId>>)
    IN  IF k # 0 THEN entryFlows[k].sourceIDs ELSE Null

\* the targetIDs attribute of the EXIT flow whose sourceIDs is the job column, or null
getRepositoryIdFromDSTargetId(exitFlows, DSTargetId) ==
    LET k == getSubflowBySourceId(exitFlows, <<DSTargetId>>)
    IN  IF k # 0 THEN exitFlows[k].targetIDs ELSE Null

\* an attribute value used as an ID: a list of several ids is the ID of no asset
AttrAsId(attr) == IF Len(attr) = 1 THEN attr[1] ELSE Undefined

\* positions of the flows of a section that the XPath selects, in document order
getSubflows(flows) ==
    LET F[k \in 0..Len(flows)] ==
            IF k = 0 THEN <<>>
            ELSE IF Visible(flows[k]) THEN Append(F[k - 1], k) ELSE F[k - 1]
    IN  F[Len(flows)]

-----------------------------------------------------------------------------
(* FlowHandler: identity strings *)

creationToolOf(asset) ==
    LET k == CHOOSE n \in DOMAIN asset.attrs :
                /\ asset.attrs[n].name = "creationTool"
                /\ \A m \in 1..(n - 1) : asset.attrs[m].name # "creationTool"
    IN  asset.attrs[k].value

\* the table name goes into the identity as it is written
getTableIdentity_NameAsWritten(d, tblName, schemaId) ==
    LET eSchema      == d.assets[getAssetById(d, schemaId)]
        schemaName   == getAssetName(eSchema)
        dcnId        == getParentAssetId(eSchema)
        eDCN         == d.assets[getAssetById(d, dcnId)]
        dcnName      == getAssetName(eDCN)
        creationTool == creationToolOf(eDCN)
        hostId       == getParentAssetId(eDCN)
        eHost        == d.assets[getAssetById(d, hostId)]
        hostName     == getAssetName(eHost)
    IN  <<"_ngo:table:", "_ngo:db:">> \o toLowerCase(hostName)
          \o <<"::">> \o toLowerCase(dcnName)
          \o <<"::">> \o toLowerCase(creationTool)
          \o <<"::">> \o toLowerCase(schemaName)
          \o <<"::">> \o tblName

getTableIdentity(d, tblName, schemaId) ==
    LET eSchema      == d.assets[getAssetById(d, schemaId)]
        schemaName   == getAssetName(eSchema)
        dcnId        == getParentAssetId(eSchema)
        eDCN         == d.assets[getAssetById(d, dcnId)]
        dcnName      == getAssetName(eDCN)
        creationTool == creationToolOf(eDCN)
        hostId       == getParentAssetId(eDCN)
        eHost        == d.assets[getAssetById(d, hostId)]
        hostName     == getAssetName(eHost)
    IN  <<"_ngo:table:", "_ngo:db:">> \o toLowerCase(hostName)
          \o <<"::">> \o toLowerCase(dcnName)
          \o <<"::">> \o toLowerCase(creationTool)
          \o <<"::">> \o toLowerCase(schemaName)
          \o <<"::">> \o toLowerCase(tblName)

\* the column name goes into the identity as it is written
getColumnIdentity_AsWritten(d, colName, tableId) ==
    LET eTable        == d.assets[getAssetById(d, tableId)]
        tableName     == getAssetName(eTable)
        schemaId      == getParentAssetId(eTable)
        tableIdentity == getTableIdentity(d, tableName, schemaId)
    IN  <<"_ngo:">> \o colName \o replace(tableIdentity, "_ngo:table:", <<"::">>)

getColumnIdentity(d, colName, tableId) ==
    LET eTable        == d.assets[getAssetById(d, tableId)]
        tableName     == getAssetName(eTable)
        schemaId      == getParentAssetId(eTable)
        tableIdentity == getTableIdentity(d, tableName, schemaId)
    IN  <<"_ngo:">> \o toLowerCase(colName) \o replace(tableIdentity, "_ngo:table:", <<"::">>)

getColumnIdentityFromTableIdentity(colName, tableIdentity) ==
    <<"_ngo:">> \o toLowerCase(colName) \o replace(tableIdentity, "_ngo:table:", <<"::">>)

-----------------------------------------------------------------------------
(* FlowHandler: edits *)

\* the asset is added as one that is not virtual
addAsset_NotVirtual(d, className, name, rid, xmlId, matchByName, virtualOnly, parentType, parentId) ==
    [d EXCEPT !.assets = Append(@,
        [class |-> className, repr |-> name, externalID |-> rid, ID |-> xmlId,
         matchByName |-> matchByName, virtualOnly |-> "false",
         attrs |-> <<[name |-> "name", value |-> name]>>,
         parentType |-> parentType, parent |-> parentId, created |-> TRUE])]

addAsset(d, className, name, rid, xmlId, matchByName, virtualOnly, parentType, parentId) ==
    [d EXCEPT !.assets = Append(@,
        [class |-> className, repr |-> name, externalID |-> rid, ID |-> xmlId,
         matchByName |-> matchByName, virtualOnly |-> virtualOnly,
         attrs |-> <<[name |-> "name", value |-> name]>>,
         parentType |-> parentType, parent |-> parentId, created |-> TRUE])]

\* bReplace is not looked at: the mappings are always appended
addFlow_AlwaysAppend(flows, existingFlow, sourceIDs, targetIDs, comment, bReplace) ==
    IF existingFlow = 0
    THEN Append(flows, [sourceIDs |-> sourceIDs, targetIDs |-> targetIDs,
                        comment |-> comment, created |-> TRUE])
    ELSE [flows EXCEPT ![existingFlow].targetIDs = flows[existingFlow].targetIDs \o targetIDs,
                       ![existingFlow].comment =
                           flows[existingFlow].comment \o <<" and ">> \o comment]

\* flows: the flows of the section; existingFlow: a position in it, 0 for undefined
addFlow(flows, existingFlow, sourceIDs, targetIDs, comment, bReplace) ==
    IF existingFlow = 0
    THEN Append(flows, [sourceIDs |-> sourceIDs, targetIDs |-> targetIDs,
                        comment |-> comment, created |-> TRUE])
    ELSE LET sExistingTargets == flows[existingFlow].targetIDs
             sExistingComment == flows[existingFlow].comment
         IN  IF bReplace
             THEN [flows EXCEPT ![existingFlow].targetIDs = targetIDs,
                                ![existingFlow].comment = comment]
             ELSE [flows EXCEPT ![existingFlow].targetIDs = sExistingTargets \o targetIDs,
                                ![existingFlow].comment =
                                    sExistingComment \o <<" and ">> \o comment]

-----------------------------------------------------------------------------
(* createColumnLevelPivots.js: the script state S is the record                *)
(* [doc, hm, id_gen, ds_rid_gen, cust] of the document and the script globals  *)

\* the two names the other way round
getConditionalPivotColumnName_Swapped(pivotColumn, condition) ==
    condition \o <<" (for ">> \o pivotColumn \o <<")">>

getConditionalPivotColumnName(pivotColumn, condition) ==
    pivotColumn \o <<" (for ">> \o condition \o <<")">>

getPivotVirtualTableName(pivotTable) == <<"(pivot) ">> \o pivotTable

\* the id that the next call of mapObjectToNextId returns
NextInternalId(S) == "xt" \o ToString(S.id_gen + 1)

mapObjectToNextId(S, identity) ==
    [S EXCEPT !.id_gen = @ + 1,
              !.hm = [x \in (DOMAIN S.hm) \cup {identity} |->
                         IF x = identity THEN NextInternalId(S) ELSE S.hm[x]]]

\* the lookup never finds a cached id
getIdForObjectIdentity_Miss(S, identity) == Undefined

getIdForObjectIdentity(S, identity) ==
    IF identity \in DOMAIN S.hm THEN S.hm[identity] ELSE Undefined

\* dsBaseRID.substring(dsBaseRID.indexOf(".") + 1)
AfterFirstDot(rid) ==
    IF \E k \in DOMAIN rid : rid[k] = "."
    THEN LET k == CHOOSE n \in DOMAIN rid : rid[n] = "." /\ \A m \in 1..(n - 1) : rid[m] # "."
         IN  SubSeq(rid, k + 1, Len(rid))
    ELSE rid

\* ds_rid_gen is used and not incremented
injectSnippetForPivotColumn_NoIncrement(S, pivotColName, ePivotCol, ePivotDS) ==
    LET colParentId   == getParentAssetId(ePivotCol)
        eParent       == S.doc.assets[getAssetById(S.doc, colParentId)]
        pivotTblName  == getPivotVirtualTableName(getAssetName(eParent))
        tblParentId   == getParentAssetId(eParent)
        virtTblId     == getTableIdentity(S.doc, pivotTblName, tblParentId)
        cachedTblId   == getIdForObjectIdentity(S, virtTblId)
        bTblExists    == cachedTblId # Undefined
        internalTblId == IF bTblExists THEN cachedTblId ELSE NextInternalId(S)
        S1 == IF bTblExists THEN S
              ELSE LET M == mapObjectToNextId(S, virtTblId)
                   IN  [M EXCEPT !.doc = addAsset(M.doc, "ASCLModel.DatabaseTable", pivotTblName,
                                                  virtTblId, internalTblId, "true", "true",
                                                  "of_DataSchema", tblParentId),
                                 !.cust = TRUE]
        dsParentId    == getParentAssetId(ePivotDS)
        dsBaseRID     == getAssetRID(ePivotDS)
        dsColId       == <<"_ngo:">> \o AfterFirstDot(dsBaseRID) \o <<".", ToString(S1.ds_rid_gen)>>
        S2            == S1
        virtColId     == getColumnIdentityFromTableIdentity(pivotColName, virtTblId)
        internalId    == NextInternalId(S2)
        S3            == mapObjectToNextId(S2, virtColId)
        internalIdDS  == "ds" \o internalId
        d1 == addAsset(S3.doc, "ASCLModel.DatabaseField", pivotColName, virtColId, internalId,
                       "true", "true", "of_DatabaseTableOrView", internalTblId)
        d2 == addAsset(d1, "DataStageX.DSStageColumn", pivotColName, dsColId, internalIdDS,
                       "false", "true", "x_of_JobObject_DSLink", dsParentId)
    IN  [S |-> [S3 EXCEPT !.doc = d2, !.cust = TRUE], internalId |-> internalId]

\* returns the script state after the call and the internal id of the new database column
injectSnippetForPivotColumn(S, pivotColName, ePivotCol, ePivotDS) ==
    LET colParentId   == getParentAssetId(ePivotCol)
        eParent       == S.doc.assets[getAssetById(S.doc, colParentId)]
        pivotTblName  == getPivotVirtualTableName(getAssetName(eParent))
        tblParentId   == getParentAssetId(eParent)
        virtTblId     == getTableIdentity(S.doc, pivotTblName, tblParentId)
        cachedTblId   == getIdForObjectIdentity(S, virtTblId)
        bTblExists    == cachedTblId # Undefined
        internalTblId == IF bTblExists THEN cachedTblId ELSE NextInternalId(S)
        S1 == IF bTblExists THEN S
              ELSE LET M == mapObjectToNextId(S, virtTblId)
                   IN  [M EXCEPT !.doc = addAsset(M.doc, "ASCLModel.DatabaseTable", pivotTblName,
                                                  virtTblId, internalTblId, "true", "true",
                                                  "of_DataSchema", tblParentId),
                                 !.cust = TRUE]
        dsParentId    == getParentAssetId(ePivotDS)
        dsBaseRID     == getAssetRID(ePivotDS)
        dsColId       == <<"_ngo:">> \o AfterFirstDot(dsBaseRID) \o <<".", ToString(S1.ds_rid_gen)>>
        S2            == [S1 EXCEPT !.ds_rid_gen = @ + 1]
        virtColId     == getColumnIdentityFromTableIdentity(pivotColName, virtTblId)
        internalId    == NextInternalId(S2)
        S3            == mapObjectToNextId(S2, virtColId)
        internalIdDS  == "ds" \o internalId
        d1 == addAsset(S3.doc, "ASCLModel.DatabaseField", pivotColName, virtColId, internalId,
                       "true", "true", "of_DatabaseTableOrView", internalTblId)
        d2 == addAsset(d1, "DataStageX.DSStageColumn", pivotColName, dsColId, internalIdDS,
                       "false", "true", "x_of_JobObject_DSLink", dsParentId)
    IN  [S |-> [S3 EXCEPT !.doc = d2, !.cust = TRUE], internalId |-> internalId]

injectSnippetForPivotFlowAsSource(S, sEntrySourceId, sEntryTargetId, sSystemSourceId, sSystemTargetId, commentForEntry, commentForSystem) ==
    LET eExistingMappingEntry  == getSubflowBySourceId(S.doc.entry, <<sEntrySourceId>>)
        entry1 == addFlow(S.doc.entry, eExistingMappingEntry, <<sEntrySourceId>>,
                          <<sEntryTargetId>>, commentForEntry, FALSE)
        eExistingMappingSystem == getSubflowBySourceId(S.doc.system, <<sSystemSourceId>>)
        system1 == addFlow(S.doc.system, eExistingMappingSystem, <<sSystemSourceId>>,
                           <<sSystemTargetId>>, commentForSystem, FALSE)
    IN  [S EXCEPT !.doc.entry = entry1, !.doc.system = system1, !.cust = TRUE]

injectSnippetForPivotFlowAsTarget(S, sExitSourceId, sExitTargetId, sSystemSourceId, sSystemTargetId, commentForExit, commentForSystem) ==
    LET eExistingMappingExit   == getSubflowBySourceId(S.doc.exit, <<sExitSourceId>>)
        exit1 == addFlow(S.doc.exit, eExistingMappingExit, <<sExitSourceId>>,
                         <<sExitTargetId>>, commentForExit, FALSE)
        eExistingMappingSystem == getSubflowBySourceId(S.doc.system, <<sSystemSourceId>>)
        system1 == addFlow(S.doc.system, eExistingMappingSystem, <<sSystemSourceId>>,
                           <<sSystemTargetId>>, commentForSystem, FALSE)
    IN  [S EXCEPT !.doc.exit = exit1, !.doc.system = system1, !.cust = TRUE]

-----------------------------------------------------------------------------
(* Flow documents read by the script *)

MaxSystemFlows == 2
MaxPasses == 2

Asset(className, name, rid, xmlId, parentType, parentId, extraAttrs) ==
    [class |-> className, repr |-> name, externalID |-> rid, ID |-> xmlId,
     matchByName |-> "false", virtualOnly |-> "false",
     attrs |-> <<[name |-> "name", value |-> name]>> \o extraAttrs,
     parentType |-> parentType, parent |-> parentId, created |-> FALSE]

Flow(sourceIDs, targetIDs, comment) ==
    [sourceIDs |-> sourceIDs, targetIDs |-> targetIDs, comment |-> comment, created |-> FALSE]

\* external ids (RIDs) of the job columns and of one store column
RidA == <<"c2e", ".", "A">>
RidB == <<"c2e", ".", "B">>
RidC == <<"c2e", ".", "k", ".", "C">>
RidD == <<"c2eD">>
RidX == <<"b1c", ".", "X">>

\* host -> database container -> schema -> tables t1, t2 -> store columns;
\* job -> link -> job columns
Assets(t2Name) ==
    << Asset("ASCLModel.HostSystem", <<"H">>, <<"b1c", ".", "h">>, "h1", Undefined, Undefined, <<>>),
       Asset("ASCLModel.Database", <<"D">>, <<"b1c", ".", "d">>, "c1", "of_HostSystem", "h1",
             <<[name |-> "creationTool", value |-> <<"DB2">>]>>),
       Asset("ASCLModel.DataSchema", <<"S">>, <<"b1c", ".", "s">>, "s1", "of_Database", "c1", <<>>),
       Asset("ASCLModel.DatabaseTable", <<"T">>, <<"b1c", ".", "t1">>, "t1", "of_DataSchema", "s1", <<>>),
       Asset("ASCLModel.DatabaseTable", t2Name, <<"b1c", ".", "t2">>, "t2", "of_DataSchema", "s1", <<>>),
       Asset("ASCLModel.DatabaseField", <<"X">>, RidX, "dbX", "of_DatabaseTableOrView", "t1", <<>>),
       Asset("ASCLModel.DatabaseField", <<"Y">>, <<"b1c", ".", "Y">>, "dbY", "of_DatabaseTableOrView", "t1", <<>>),
       Asset("ASCLModel.DatabaseField", <<"Z">>, <<"b1c", ".", "Z">>, "dbZ", "of_DatabaseTableOrView", "t2", <<>>),
       Asset("ASCLModel.DatabaseField", <<"W">>, <<"b1c", ".", "W">>, "dbW", "of_DatabaseTableOrView", "t2", <<>>),
       Asset("DataStageX.DSProject", <<"prj">>, <<"c2e", ".", "p">>, "p1", Undefined, Undefined, <<>>),
       Asset("DataStageX.x_JOB_PARALLEL", <<"job">>, <<"c2e", ".", "j">>, "j1", "of_DSProject", "p1", <<>>),
       Asset("DataStageX.DSLink", <<"lnk">>, <<"c2e", ".", "l">>, "l1", "of_JobDef", "j1", <<>>),
       Asset("DataStageX.DSStageColumn", <<"A">>, RidA, "dsA", "x_of_JobObject_DSLink", "l1", <<>>),
       Asset("DataStageX.DSStageColumn", <<"B">>, RidB, "dsB", "x_of_JobObject_DSLink", "l1", <<>>),
       Asset("DataStageX.DSStageColumn", <<"C">>, RidC, "dsC", "x_of_JobObject_DSLink", "l1", <<>>),
       Asset("DataStageX.DSStageColumn", <<"D">>, RidD, "dsD", "x_of_JobObject_DSLink", "l1", <<>>) >>

EntryXA == Flow(<<"dbX">>, <<"dsA">>, <<"X-A">>)
EntryZC == Flow(<<"dbZ">>, <<"dsC">>, <<"Z-C">>)
ExitBY  == Flow(<<"dsB">>, <<"dbY">>, <<"B-Y">>)
ExitDW  == Flow(<<"dsD">>, <<"dbW">>, <<"D-W">>)

EntrySections == { <<EntryXA, EntryZC>>, <<EntryZC>> }
ExitSections  == { <<ExitBY, ExitDW>>, <<ExitBY>>, <<>> }

SystemCandidates ==
    { Flow(<<"dsA">>, <<"dsB">>, <<"A-B">>),
      Flow(<<"dsA">>, <<"dsB", "dsD">>, <<"A-BD">>),
      Flow(<<"dsA", "dsC">>, <<"dsB">>, <<"AC-B">>) }

SystemSections ==
    UNION { [1..n -> SystemCandidates] : n \in 1..MaxSystemFlows }

\* the keys of the RID map: none, job columns, or a store column
PivotKeySets == { {}, {RidA}, {RidB}, {RidX}, {RidA, RidB}, {RidA, RidC, RidD} }

Documents ==
    { [assets |-> Assets(n), entry |-> en, exit |-> ex, system |-> sy] :
        n \in {<<"t">>, <<"U">>}, en \in EntrySections, ex \in ExitSections,
        sy \in SystemSections }

NoFunction == [x \in {} |-> Undefined]

-----------------------------------------------------------------------------
(* createColumnLevelPivots.js: the script *)

\* the script globals and the document as one record, and back
ScriptState ==
    [doc |-> doc, hm |-> hmObjectIdentitiesToIds, id_gen |-> id_gen,
     ds_rid_gen |-> ds_rid_gen, cust |-> bHasBeenCustomised]

SetScriptState(S) ==
    /\ doc' = S.doc
    /\ hmObjectIdentitiesToIds' = S.hm
    /\ id_gen' = S.id_gen
    /\ ds_rid_gen' = S.ds_rid_gen
    /\ bHasBeenCustomised' = S.cust

\* external ids of the virtual assets of a document, by class
VirtualIdentities(d) ==
    { <<d.assets[k].class, d.assets[k].externalID>> : k \in {n \in DOMAIN d.assets : d.assets[n].created} }

\* no FlowHandler held for the identity strings
IdentityIdle ==
    /\ idDoc = [assets |-> <<>>, entry |-> <<>>, exit |-> <<>>, system |-> <<>>]
    /\ idColName = <<>>
    /\ idTableId = Undefined
    /\ idDirect = Undefined
    /\ idViaTable = Undefined
    /\ idOtherName = <<>>
    /\ idTable = Undefined
    /\ idOtherTable = Undefined

\* no run document parsed
OMDIdle ==
    /\ omd = [exec |-> Undefined, params |-> <<>>, events |-> <<>>]
    /\ omd0 = omd
    /\ omdBefore = omd
    /\ omdStatus = "none"
    /\ targetHostname = Undefined
    /\ calls = 0

\* getUniqueRuntimeIdentity has not returned
NoIdentity == [project |-> Undefined]

\* no run document held for the runtime identity
RuntimeIdle ==
    /\ runA = Undefined
    /\ runB = Undefined
    /\ identityA = NoIdentity
    /\ identityB = NoIdentity

\* the hook is not installed and no flow files are kept
HookIdle ==
    /\ originalFlows = <<>>
    /\ mappedSource = <<>>
    /\ mappedOutput = <<>>
    /\ defaultCharset = "none"
    /\ origXml = Undefined
    /\ tweakedFlow = Undefined
    /\ hookPc = "none"
    /\ hookCalls = 0
    /\ scriptPc = "none"
    /\ xmldata = Undefined
    /\ scriptRuns = 0

\* no LineageWorkbook constructed
WorkbookIdle ==
    /\ catalog = <<>>
    /\ wsRows = <<>>
    /\ requests = {}
    /\ writtenAssetTypes = <<>>
    /\ completions = <<>>
    /\ popStatus = "none"
    /\ popCalls = 0
    /\ failures = {}

\* the arguments of no call of addFlow
NoFlowArgs ==
    [existingFlow |-> 0, sourceIDs |-> <<>>, targetIDs |-> <<>>, comment |-> <<>>, bReplace |-> FALSE]

\* addFlow not called on its own
FlowIdle ==
    /\ flowSection = <<>>
    /\ flowBefore = <<>>
    /\ flowArgs = NoFlowArgs
    /\ flowCalls = 0

\* the state after the input file and the RID map have been read and parsed
InitPass ==
    /\ IdentityIdle
    /\ OMDIdle
    /\ RuntimeIdle
    /\ HookIdle
    /\ WorkbookIdle
    /\ FlowIdle
    /\ doc0 \in Documents
    /\ doc = doc0
    /\ nsMatch \in BOOLEAN
    /\ pivotColumns \in PivotKeySets
    /\ bHasBeenCustomised = FALSE
    /\ id_gen = 0
    /\ ds_rid_gen = 0
    /\ hmObjectIdentitiesToIds = NoFunction
    /\ innerFlows = <<>>
    /\ pc = "start"
    /\ i = 0
    /\ aSourceIDs = <<>>
    /\ aTargetIDs = <<>>
    /\ si = 0
    /\ tj = 0
    /\ bSourceIsPivot = FALSE
    /\ bTargetIsPivot = FALSE
    /\ eSource = 0
    /\ passes = 0
    /\ sweeps = 0
    /\ prevRun = [end |-> "none", sweeps |-> 0, identities |-> {}]

\* const innerFlows = fh.getSubflows(eSystemFlows); i = 0
StartSweep ==
    /\ pc = "start"
    /\ innerFlows' = getSubflows(doc.system)
    /\ i' = 1
    /\ pc' = "sweep"
    /\ passes' = passes + 1
    /\ sweeps' = sweeps + 1
    /\ UNCHANGED exceptPass
    /\ UNCHANGED <<doc, doc0, nsMatch, pivotColumns, bHasBeenCustomised, id_gen, ds_rid_gen,
                   hmObjectIdentitiesToIds, aSourceIDs, aTargetIDs, si, tj, bSourceIsPivot,
                   bTargetIsPivot, eSource, prevRun>>

\* loop body of the sweep up to the first source: read the edge's attributes and split them
VisitEdge ==
    /\ pc = "sweep"
    /\ i <= Len(innerFlows)
    /\ aSourceIDs' = doc.system[innerFlows[i]].sourceIDs
    /\ aTargetIDs' = doc.system[innerFlows[i]].targetIDs
    /\ bSourceIsPivot' = FALSE
    /\ bTargetIsPivot' = FALSE
    /\ si' = 1
    /\ pc' = "sources"
    /\ UNCHANGED exceptPass
    /\ UNCHANGED <<doc, doc0, nsMatch, pivotColumns, bHasBeenCustomised, id_gen, ds_rid_gen,
                   hmObjectIdentitiesToIds, innerFlows, i, tj, eSource, passes, sweeps, prevRun>>

\* every job column is taken for a pivot
isPivotColumn_Always(eDS) == TRUE

\* pivotColumns.hasOwnProperty(fh.getAssetRID(eDS)), eDS the job column of the endpoint
isPivotColumn(eDS) == getAssetRID(eDS) \in pivotColumns

\* source loop: no ENTRY flow targets the job column; warn and go to the next source
SourceNotFound ==
    /\ pc = "sources"
    /\ si <= Len(aSourceIDs)
    /\ getRepositoryIdFromDSSourceId(doc.entry, aSourceIDs[si]) = Null
    /\ si' = si + 1
    /\ UNCHANGED exceptPass
    /\ UNCHANGED <<doc, doc0, nsMatch, pivotColumns, bHasBeenCustomised, id_gen, ds_rid_gen,
                   hmObjectIdentitiesToIds, innerFlows, pc, i, aSourceIDs, aTargetIDs, tj,
                   bSourceIsPivot, bTargetIsPivot, eSource, passes, sweeps, prevRun>>

\* source loop: the store column is resolved; a missing asset is a TypeError
SourceFound ==
    /\ pc = "sources"
    /\ si <= Len(aSourceIDs)
    /\ LET sSourceId    == aSourceIDs[si]
           eSourceDS    == getAssetById(doc, sSourceId)
           sSourceColId == getRepositoryIdFromDSSourceId(doc.entry, sSourceId)
           eSrc         == getAssetById(doc, AttrAsId(sSourceColId))
       IN  /\ sSourceColId # Null
           /\ IF eSrc = 0 \/ eSourceDS = 0
              THEN /\ pc' = "aborted"
                   /\ UNCHANGED <<eSource, bSourceIsPivot, tj>>
              ELSE /\ eSource' = eSrc
                   /\ bSourceIsPivot' = isPivotColumn(doc.assets[eSourceDS])
                   /\ tj' = 1
                   /\ pc' = "targets"
    /\ UNCHANGED exceptPass
    /\ UNCHANGED <<doc, doc0, nsMatch, pivotColumns, bHasBeenCustomised, id_gen, ds_rid_gen,
                   hmObjectIdentitiesToIds, innerFlows, i, aSourceIDs, aTargetIDs, si,
                   bTargetIsPivot, passes, sweeps, prevRun>>

\* the two injectSnippetForPivotFlowAsSource arguments built from the id that
\* injectSnippetForPivotColumn returned (r: its result)
pivotFlowAsSource(r, sTargetId, sPivotColName, sTargetColName) ==
    injectSnippetForPivotFlowAsSource(r.S, r.internalId, "ds" \o r.internalId,
        "ds" \o r.internalId, sTargetId, <<"[">> \o sPivotColName \o <<"]">>,
        <<"[">> \o sPivotColName \o <<"] - [">> \o sTargetColName \o <<"]">>)

\* the body of if (bSourceIsPivot)
sourcePivotBlock(S, sPivotColName, eSrc, sSourceId, sTargetId, sTargetColName) ==
    pivotFlowAsSource(
        injectSnippetForPivotColumn(S, sPivotColName, S.doc.assets[eSrc],
                                    S.doc.assets[getAssetById(S.doc, sSourceId)]),
        sTargetId, sPivotColName, sTargetColName)

pivotFlowAsTarget(r, sSourceId, sPivotColName, sSourceColName) ==
    injectSnippetForPivotFlowAsTarget(r.S, "ds" \o r.internalId, r.internalId, sSourceId,
        "ds" \o r.internalId, <<"[">> \o sPivotColName \o <<"]">>,
        <<"[">> \o sSourceColName \o <<"] - [">> \o sPivotColName \o <<"]">>)

\* the body of if (bTargetIsPivot), eTarget resolved
targetPivotBlock(S, sPivotColName, eTarget, sSourceId, sTargetId, sSourceColName) ==
    pivotFlowAsTarget(
        injectSnippetForPivotColumn(S, sPivotColName, S.doc.assets[eTarget],
                                    S.doc.assets[getAssetById(S.doc, sTargetId)]),
        sSourceId, sPivotColName, sSourceColName)

\* the rest of an iteration after if (bSourceIsPivot) has left the script state S1:
\* with eTarget null, injectSnippetForPivotColumn ends in a TypeError
targetSide(S1, bTgt, eTarget, sSourceId, sTargetId, sSourceColName, sTargetColName) ==
    IF bTgt /\ eTarget = 0
    THEN [S |-> S1, bTargetIsPivot |-> bTgt, threw |-> TRUE]
    ELSE [S |-> IF bTgt
                THEN targetPivotBlock(S1,
                         getConditionalPivotColumnName(sTargetColName, sSourceColName),
                         eTarget, sSourceId, sTargetId, sSourceColName)
                ELSE S1,
          bTargetIsPivot |-> bTgt, threw |-> FALSE]

\* one iteration of the target loop for the pair (sSourceId, sTargetId): the script state
\* it leaves, the value of bTargetIsPivot it leaves, and whether it ended in a TypeError
TargetLoopBody(S, sSourceId, sTargetId, eSrc, bSrcIsPivot, bTgtIsPivot) ==
    LET sSourceColName == getAssetName(S.doc.assets[eSrc])
        eTargetDS      == getAssetById(S.doc, sTargetId)
        sTargetColId   == getRepositoryIdFromDSTargetId(S.doc.exit, sTargetId)
        bFound         == sTargetColId # Null
        eTarget        == IF bFound THEN getAssetById(S.doc, AttrAsId(sTargetColId)) ELSE 0
        sTargetColName == IF bFound THEN getAssetName(S.doc.assets[eTarget]) ELSE <<>>
    IN  IF bFound /\ (eTarget = 0 \/ eTargetDS = 0)
        THEN [S |-> S, bTargetIsPivot |-> bTgtIsPivot, threw |-> TRUE]
        ELSE targetSide(
                 IF bSrcIsPivot
                 THEN sourcePivotBlock(S,
                          getConditionalPivotColumnName(sSourceColName, sTargetColName),
                          eSrc, sSourceId, sTargetId, sTargetColName)
                 ELSE S,
                 IF bFound THEN isPivotColumn(S.doc.assets[eTargetDS]) ELSE bTgtIsPivot,
                 eTarget, sSourceId, sTargetId, sSourceColName, sTargetColName)

\* the loop tests after an iteration that left r
afterIteration(r) ==
    /\ SetScriptState(r.S)
    /\ bTargetIsPivot' = r.bTargetIsPivot
    /\ IF r.threw
       THEN pc' = "aborted" /\ UNCHANGED <<si, tj>>
       ELSE IF tj < Len(aTargetIDs)
       THEN tj' = tj + 1 /\ UNCHANGED <<si, pc>>
       ELSE si' = si + 1 /\ pc' = "sources" /\ UNCHANGED tj

\* target loop: one iteration, then the loop tests
TargetStep ==
    /\ pc = "targets"
    /\ tj <= Len(aTargetIDs)
    /\ afterIteration(TargetLoopBody(ScriptState, aSourceIDs[si], aTargetIDs[tj], eSource,
                                     bSourceIsPivot, bTargetIsPivot))
    /\ UNCHANGED exceptPass
    /\ UNCHANGED <<doc0, nsMatch, pivotColumns, innerFlows, i, aSourceIDs, aTargetIDs,
                   bSourceIsPivot, eSource, passes, sweeps, prevRun>>

\* the source loop is over: resolveSourceToTargetMappings returns, next edge
EdgeDone ==
    /\ pc = "sources"
    /\ si > Len(aSourceIDs)
    /\ i' = i + 1
    /\ pc' = "sweep"
    /\ UNCHANGED exceptPass
    /\ UNCHANGED <<doc, doc0, nsMatch, pivotColumns, bHasBeenCustomised, id_gen, ds_rid_gen,
                   hmObjectIdentitiesToIds, innerFlows, aSourceIDs, aTargetIDs, si, tj,
                   bSourceIsPivot, bTargetIsPivot, eSource, passes, sweeps, prevRun>>

\* after the sweep: output the customised document, or report that none was needed
\* the end of the sweep reports a customisation whether or not anything was injected
Finish_AlwaysCustomised ==
    /\ pc = "sweep"
    /\ i > Len(innerFlows)
    /\ pc' = "customised"
    /\ UNCHANGED exceptPass
    /\ UNCHANGED <<doc, doc0, nsMatch, pivotColumns, bHasBeenCustomised, id_gen, ds_rid_gen,
                   hmObjectIdentitiesToIds, innerFlows, i, aSourceIDs, aTargetIDs, si, tj,
                   bSourceIsPivot, bTargetIsPivot, eSource, passes, sweeps, prevRun>>

\* if (bHasBeenCustomised) { output, copy, re-detect } else { "no customisation needed" }
Finish ==
    /\ pc = "sweep"
    /\ i > Len(innerFlows)
    /\ pc' = IF bHasBeenCustomised THEN "customised" ELSE "retained"
    /\ UNCHANGED exceptPass
    /\ UNCHANGED <<doc, doc0, nsMatch, pivotColumns, bHasBeenCustomised, id_gen, ds_rid_gen,
                   hmObjectIdentitiesToIds, innerFlows, i, aSourceIDs, aTargetIDs, si, tj,
                   bSourceIsPivot, bTargetIsPivot, eSource, passes, sweeps, prevRun>>

Ended == pc \in {"customised", "retained"}

\* a further sweep over the document in memory, identity cache and counters retained
Rerun ==
    /\ Ended
    /\ passes < MaxPasses
    /\ innerFlows' = getSubflows(doc.system)
    /\ i' = 1
    /\ pc' = "sweep"
    /\ passes' = passes + 1
    /\ sweeps' = sweeps + 1
    /\ UNCHANGED exceptPass
    /\ UNCHANGED <<doc, doc0, nsMatch, pivotColumns, bHasBeenCustomised, id_gen, ds_rid_gen,
                   hmObjectIdentitiesToIds, aSourceIDs, aTargetIDs, si, tj, bSourceIsPivot,
                   bTargetIsPivot, eSource, prevRun>>

\* a run on a fresh load that keeps the counter of job-column external ids
Reload_KeepCounter ==
    /\ Ended \/ pc = "aborted"
    /\ passes < MaxPasses
    /\ prevRun' = [end |-> pc, sweeps |-> sweeps, identities |-> VirtualIdentities(doc)]
    /\ doc' = doc0
    /\ bHasBeenCustomised' = FALSE
    /\ id_gen' = 0
    /\ hmObjectIdentitiesToIds' = NoFunction
    /\ sweeps' = 0
    /\ pc' = "start"
    /\ UNCHANGED exceptPass
    /\ UNCHANGED <<doc0, nsMatch, pivotColumns, innerFlows, i, aSourceIDs, aTargetIDs, si, tj,
                   bSourceIsPivot, bTargetIsPivot, eSource, passes, ds_rid_gen>>

\* the script is run again on the same input file and RID map: fresh document and globals
Reload ==
    /\ Ended \/ pc = "aborted"
    /\ passes < MaxPasses
    /\ prevRun' = [end |-> pc, sweeps |-> sweeps, identities |-> VirtualIdentities(doc)]
    /\ doc' = doc0
    /\ bHasBeenCustomised' = FALSE
    /\ id_gen' = 0
    /\ ds_rid_gen' = 0
    /\ hmObjectIdentitiesToIds' = NoFunction
    /\ sweeps' = 0
    /\ pc' = "start"
    /\ UNCHANGED exceptPass
    /\ UNCHANGED <<doc0, nsMatch, pivotColumns, innerFlows, i, aSourceIDs, aTargetIDs, si, tj,
                   bSourceIsPivot, bTargetIsPivot, eSource, passes>>

NextPass ==
    \/ StartSweep
    \/ VisitEdge
    \/ SourceNotFound
    \/ SourceFound
    \/ TargetStep
    \/ EdgeDone
    \/ Finish
    \/ Rerun
    \/ Reload

vars == <<passVars, identityVars, omdVars, runtimeVars, hookVars, workbookVars, flowVars>>

SpecPass == InitPass /\ [][NextPass]_vars

-----------------------------------------------------------------------------
(* Properties of the customisation sweep *)

Range(s) == { s[k] : k \in DOMAIN s }

\* positions of the assets of a class that the script added
VirtualOfClass(d, className) ==
    { k \in DOMAIN d.assets : d.assets[k].created /\ d.assets[k].class = className }

VirtualTables(d)     == VirtualOfClass(d, "ASCLModel.DatabaseTable")
VirtualDbColumns(d)  == VirtualOfClass(d, "ASCLModel.DatabaseField")
VirtualJobColumns(d) == VirtualOfClass(d, "DataStageX.DSStageColumn")

\* positions of the flows of a section that the script added
AddedFlows(flows) == { k \in DOMAIN flows : flows[k].created }

ScenarioAB ==
    /\ doc0.system = <<Flow(<<"dsA">>, <<"dsB">>, <<"A-B">>)>>
    /\ EntryXA \in Range(doc0.entry)
    /\ ExitBY \in Range(doc0.exit)

ExactlyOnePivotNamed(name) ==
    /\ Cardinality(VirtualTables(doc)) = 1
    /\ Cardinality(VirtualDbColumns(doc)) = 1
    /\ Cardinality(VirtualJobColumns(doc)) = 1
    /\ Cardinality(AddedFlows(doc.entry)) = 1
    /\ \A c \in VirtualDbColumns(doc), j \in VirtualJobColumns(doc), e \in AddedFlows(doc.entry) :
          /\ doc.assets[c].repr = name
          /\ doc.entry[e].sourceIDs = <<doc.assets[c].ID>>
          /\ doc.entry[e].targetIDs = <<doc.assets[j].ID>>

StoreColumnOfTarget ==
    doc.assets[getAssetById(doc, AttrAsId(getRepositoryIdFromDSTargetId(doc.exit, aTargetIDs[tj])))]

TargetResolved == getRepositoryIdFromDSTargetId(doc.exit, aTargetIDs[tj]) # Null

OwningTableOf(c) ==
    LET k == CHOOSE n \in DOMAIN doc0.assets :
                 /\ doc0.assets[n].class = "ASCLModel.DatabaseField"
                 /\ doc0.assets[n].repr = <<doc.assets[c].repr[1]>>
    IN  doc0.assets[k].parent

SystemEndpointRIDs ==
    { getAssetRID(doc0.assets[getAssetById(doc0, id)]) :
        id \in UNION { Range(doc0.system[k].sourceIDs) \cup Range(doc0.system[k].targetIDs) :
                         k \in DOMAIN doc0.system } }

SourceMissTargetPivot(sSourceId, sTargetId) ==
    /\ getRepositoryIdFromDSSourceId(doc0.entry, sSourceId) = Null
    /\ getRepositoryIdFromDSTargetId(doc0.exit, sTargetId) # Null
    /\ getAssetById(doc0, sTargetId) # 0
    /\ isPivotColumn(doc0.assets[getAssetById(doc0, sTargetId)])

\* the target-side pivot of the pair is in the document: a virtual job column made from
\* the RID of the target, and a SYSTEM edge from the source to that column
TargetPivotApplied(sSourceId, sTargetId) ==
    \E c \in VirtualJobColumns(doc) :
        /\ Len(doc.assets[c].externalID) >= 2
        /\ SubSeq(doc.assets[c].externalID, 1, Len(doc.assets[c].externalID) - 2) =
              <<"_ngo:">> \o AfterFirstDot(getAssetRID(doc0.assets[getAssetById(doc0, sTargetId)]))
        /\ \E f \in DOMAIN doc.system :
              /\ sSourceId \in Range(doc.system[f].sourceIDs)
              /\ doc.assets[c].ID \in Range(doc.system[f].targetIDs)

\* C23: when a source job column of a SYSTEM edge has no matching ENTRY edge, the targets
\* of that edge are still resolved through EXIT and the target-side pivot of every pivot
\* target is still applied: once the pass has ended, the pivot of each such pair is there.
C23_TargetPivotsDespiteSourceMiss ==
    Ended =>
        \A k \in DOMAIN doc0.system :
            \A sSourceId \in Range(doc0.system[k].sourceIDs), sTargetId \in Range(doc0.system[k].targetIDs) :
                SourceMissTargetPivot(sSourceId, sTargetId) => TargetPivotApplied(sSourceId, sTargetId)

\* the RIDs of the job columns of the loaded document
OriginalJobColumnRIDs ==
    { getAssetRID(doc0.assets[k]) :
        k \in { n \in DOMAIN doc0.assets : doc0.assets[n].class = "DataStageX.DSStageColumn" } }

\* how many virtual job columns were added before the one at position c
AddedBefore(c) == Cardinality({ x \in VirtualJobColumns(doc) : x < c })

NextSweep ==
    \/ StartSweep
    \/ VisitEdge
    \/ SourceNotFound
    \/ SourceFound
    \/ TargetStep
    \/ EdgeDone
    \/ Finish

\* the moves of the target loop: TargetStep is enabled exactly when the loop test holds,
\* and each of its steps is one of these moves
TargetLoopMoves ==
    /\ pc = "targets"
    /\ tj <= Len(aTargetIDs)
    /\ \/ pc' = "aborted" /\ UNCHANGED <<si, tj>>
       \/ tj' = tj + 1 /\ UNCHANGED <<si, pc>>
       \/ si' = si + 1 /\ pc' = "sources" /\ UNCHANGED tj

\* the steps outside the target loop
OutsideTargetLoop ==
    \/ StartSweep
    \/ VisitEdge
    \/ SourceNotFound
    \/ SourceFound
    \/ EdgeDone
    \/ Finish

SpecSweep ==
    /\ InitPass
    /\ [][NextSweep]_vars
    /\ WF_vars(OutsideTargetLoop)
    /\ WF_<<pc, si, tj>>(TargetLoopMoves)

\* the steps of a linear sweep: the k-th visit is of the k-th SYSTEM edge of the document
\* as loaded, with the sourceIDs and targetIDs the edge has at that moment, and the index
\* of the sweep only moves on by one
LinearSweepSteps ==
    /\ [][(pc = "sweep" /\ pc' = "sources") =>
              /\ innerFlows[i] = i
              /\ i <= Len(doc0.system)
              /\ ~doc.system[innerFlows[i]].created
              /\ aSourceIDs' = doc.system[i].sourceIDs
              /\ aTargetIDs' = doc.system[i].targetIDs]_vars
    /\ [][i' = i \/ i' = i + 1]_vars
    /\ [](pc # "start" => innerFlows = [k \in 1..Len(doc0.system) |-> k])

-----------------------------------------------------------------------------
(* FlowHandler identity strings, called on a parsed flow document *)

\* no flow document read by the script, no RID map
PassIdle ==
    /\ doc = [assets |-> <<>>, entry |-> <<>>, exit |-> <<>>, system |-> <<>>]
    /\ doc0 = doc
    /\ nsMatch = FALSE
    /\ pivotColumns = {}
    /\ bHasBeenCustomised = FALSE
    /\ id_gen = 0
    /\ ds_rid_gen = 0
    /\ hmObjectIdentitiesToIds = NoFunction
    /\ innerFlows = <<>>
    /\ pc = "none"
    /\ i = 0
    /\ aSourceIDs = <<>>
    /\ aTargetIDs = <<>>
    /\ si = 0
    /\ tj = 0
    /\ bSourceIsPivot = FALSE
    /\ bTargetIsPivot = FALSE
    /\ eSource = 0
    /\ passes = 0
    /\ sweeps = 0
    /\ prevRun = [end |-> "none", sweeps |-> 0, identities |-> {}]

\* names, in upper, lower and mixed case, of one and of several lexemes
HostNames   == { <<"H">>, <<"h">> }
SchemaNames == { <<"S">>, <<"s">> }
TableNames  == { <<"T">>, <<"t">>, <<"U", "_ngo:table:">> }
ColumnNames == { <<"X">>, <<"x">>, <<"Y", "_ngo:table:", "Z">> }

\* host -> database container -> schema -> tables t1, t2, each chain complete
IdentityAssets(hostName, schemaName, t1Name, t2Name) ==
    << Asset("ASCLModel.HostSystem", hostName, <<"b1c", ".", "h">>, "h1", Undefined, Undefined, <<>>),
       Asset("ASCLModel.Database", <<"D">>, <<"b1c", ".", "d">>, "c1", "of_HostSystem", "h1",
             <<[name |-> "creationTool", value |-> <<"DB2">>]>>),
       Asset("ASCLModel.DataSchema", schemaName, <<"b1c", ".", "s">>, "s1", "of_Database", "c1", <<>>),
       Asset("ASCLModel.DatabaseTable", t1Name, <<"b1c", ".", "t1">>, "t1", "of_DataSchema", "s1", <<>>),
       Asset("ASCLModel.DatabaseTable", t2Name, <<"b1c", ".", "t2">>, "t2", "of_DataSchema", "s1", <<>>) >>

IdentityDocuments ==
    { [assets |-> IdentityAssets(h, sn, n1, n2), entry |-> <<>>, exit |-> <<>>, system |-> <<>>] :
        h \in HostNames, sn \in SchemaNames, n1 \in TableNames, n2 \in TableNames }

\* a flow document is parsed; a column name and a table asset T are chosen
InitIdentity ==
    /\ PassIdle
    /\ OMDIdle
    /\ RuntimeIdle
    /\ HookIdle
    /\ WorkbookIdle
    /\ FlowIdle
    /\ idDoc \in IdentityDocuments
    /\ idColName \in ColumnNames
    /\ idTableId \in {"t1", "t2"}
    /\ idDirect = Undefined
    /\ idViaTable = Undefined
    /\ idOtherName \in TableNames
    /\ idTable = Undefined
    /\ idOtherTable = Undefined

\* fh.getColumnIdentity(col, T's ID)
CallGetColumnIdentity ==
    /\ idDirect = Undefined
    /\ idDirect' = getColumnIdentity(idDoc, idColName, idTableId)
    /\ UNCHANGED <<idDoc, idColName, idTableId, idViaTable, idOtherName, idTable, idOtherTable>>
    /\ UNCHANGED exceptIdentity

\* fh.getColumnIdentityFromTableIdentity(col, fh.getTableIdentity(n, s)),
\* n the name of T and s the ID of its parent schema
CallGetColumnIdentityFromTableIdentity ==
    /\ idViaTable = Undefined
    /\ LET eTable == idDoc.assets[getAssetById(idDoc, idTableId)]
       IN  idViaTable' = getColumnIdentityFromTableIdentity(idColName,
                             getTableIdentity(idDoc, getAssetName(eTable), getParentAssetId(eTable)))
    /\ UNCHANGED <<idDoc, idColName, idTableId, idDirect, idOtherName, idTable, idOtherTable>>
    /\ UNCHANGED exceptIdentity

\* fh.getTableIdentity(n, s) and fh.getTableIdentity(other name, s),
\* n the name of T and s the ID of its parent schema
CallGetTableIdentity ==
    /\ idTable = Undefined
    /\ LET eTable == idDoc.assets[getAssetById(idDoc, idTableId)]
       IN  /\ idTable' = getTableIdentity(idDoc, getAssetName(eTable), getParentAssetId(eTable))
           /\ idOtherTable' = getTableIdentity(idDoc, idOtherName, getParentAssetId(eTable))
    /\ UNCHANGED <<idDoc, idColName, idTableId, idDirect, idViaTable, idOtherName>>
    /\ UNCHANGED exceptIdentity

NextIdentity ==
    \/ CallGetColumnIdentity
    \/ CallGetColumnIdentityFromTableIdentity
    \/ CallGetTableIdentity

SpecIdentity == InitIdentity /\ [][NextIdentity]_vars

\* C7: for every column name col and every table asset T with name n and parent schema s
\* whose schema -> container -> host chain is present,
\* getColumnIdentityFromTableIdentity(col, getTableIdentity(n, s)) equals
\* getColumnIdentity(col, T's ID).
C7_ColumnIdentityAgrees ==
    (idDirect # Undefined /\ idViaTable # Undefined) => idViaTable = idDirect

\* both identities have been computed for a column name and a table name with
\* upper-case letters
C7_Witness ==
    /\ idDirect # Undefined
    /\ idViaTable # Undefined
    /\ idColName = <<"Y", "_ngo:table:", "Z">>
    /\ idTableId = "t2"
    /\ idDoc.assets[5].repr = <<"U", "_ngo:table:">>
    /\ idViaTable = <<"_ngo:", "y", "_ngo:table:", "z", "::", "_ngo:db:", "h", "::", "d", "::",
                      "db2", "::", "s", "::", "u", "_ngo:table:">>

\* the segments of the identity of the table T of the identity document, after the
\* prefix: host, container, creation tool, schema and table name in lower case
LowerCasedSegments ==
    LET eTable == idDoc.assets[getAssetById(idDoc, idTableId)]
    IN  toLowerCase(idDoc.assets[1].repr) \o <<"::">> \o toLowerCase(idDoc.assets[2].repr)
          \o <<"::">> \o toLowerCase(<<"DB2">>) \o <<"::">> \o toLowerCase(idDoc.assets[3].repr)
          \o <<"::">> \o toLowerCase(eTable.repr)

\* no upper-case letter in the text, and two names that differ in letter case only give
\* one identity
LowerCasedThroughout ==
    /\ \A k \in DOMAIN idTable : idTable[k] \notin DOMAIN LowerOf
    /\ toLowerCase(idOtherName) = toLowerCase(idDoc.assets[getAssetById(idDoc, idTableId)].repr)
          => idOtherTable = idTable

\* C13 as stated: getTableIdentity returns table:db:<host>::<container>::<creationTool>::
\* <schema>::<table>, every segment lower-cased, so two table names that differ in letter
\* case only give the same string.
C13_TableIdentityAsStated ==
    idTable # Undefined =>
        /\ idTable = <<"table:", "db:">> \o LowerCasedSegments
        /\ LowerCasedThroughout

\* C13 amended: getTableIdentity returns _ngo:table:_ngo:db:<host>::<container>::
\* <creationTool>::<schema>::<table>, every segment lower-cased, so two table names that
\* differ in letter case only give the same string.
C13_TableIdentityLowerCased ==
    idTable # Undefined =>
        /\ idTable = <<"_ngo:table:", "_ngo:db:">> \o LowerCasedSegments
        /\ LowerCasedThroughout

\* the identities of table "T" and of the name "t" under the same schema are computed
C13_Witness ==
    /\ idTable # Undefined
    /\ idTable = <<"_ngo:table:", "_ngo:db:", "h", "::", "d", "::", "db2", "::", "s", "::", "t">>
    /\ idOtherTable = idTable
    /\ idDoc.assets[getAssetById(idDoc, idTableId)].repr = <<"T">>
    /\ idOtherName = <<"t">>
    /\ idDoc.assets[1].repr = <<"H">>

-----------------------------------------------------------------------------
(* OMDHandler: the run document and replaceHostname.  A run document is the     *)
(* record of the Name of the Computer component of the executable locator,      *)
(* the actual parameters in document order (formal parameter name, Name of the  *)
(* Computer component of the parameter's locator, Value) and the events in      *)
(* document order (Type, Name of the Computer component of the data-resource    *)
(* locator).  Attribute values are strings.                                     *)

MaxParams == 2
MaxCalls == 2

ActualParameter(formal, host, value) == [formal |-> formal, host |-> host, value |-> value]

Event(type, host) == [type |-> type, host |-> host]

ParameterCandidates ==
    { ActualParameter("SourceConnectionString", "hA", "v1"),
      ActualParameter("TargetConnectionString", "hB", "v2"),
      ActualParameter("sourceconnectionstring", "hB", "v1"),
      ActualParameter("DSJobInvocationId", "hA", "v3") }

ParameterSections == UNION { [1..n -> ParameterCandidates] : n \in 0..MaxParams }

EventSections ==
    { <<Event("Read", "hA"), Event("Write", "hB")>>,
      <<Event("Write", "hA"), Event("Other", "hA"), Event("Read", "hA")>>,
      <<Event("Read", "hA"), Event("Read", "hB"), Event("Write", "hA")>>,
      <<Event("Read", "hA"), Event("Write", "hA"), Event("Write", "hB")>>,
      <<Event("Read", "hA")>>,
      <<Event("Write", "hB")>> }

RunDocuments ==
    { [exec |-> h, params |-> ps, events |-> es] :
        h \in {"hA", "hB"}, ps \in ParameterSections, es \in EventSections }

TargetHostnames == {"hT", "hA"}

\* position of the first event of the type, 0 when there is none
FirstEvent(events, type) ==
    IF \E k \in DOMAIN events : events[k].type = type
    THEN CHOOSE k \in DOMAIN events :
            events[k].type = type /\ \A m \in 1..(k - 1) : events[m].type # type
    ELSE 0

getReadEvent(o) == FirstEvent(o.events, "Read")

getWriteEvent(o) == FirstEvent(o.events, "Write")

\* the value gets the new hostname as its prefix
replaceParameter_NewHost(p, targetHost) ==
    IF p.formal = "SourceConnectionString" \/ p.formal = "TargetConnectionString"
    THEN [p EXCEPT !.value = targetHost \o "__" \o p.value, !.host = targetHost]
    ELSE [p EXCEPT !.host = targetHost]

\* the value of every parameter gets the prefix
replaceParameter_Every(p, targetHost) ==
    [p EXCEPT !.value = p.host \o "__" \o p.value, !.host = targetHost]

\* the body of the loop over the actual parameters
replaceParameter(p, targetHost) ==
    IF p.formal = "SourceConnectionString" \/ p.formal = "TargetConnectionString"
    THEN [p EXCEPT !.value = p.host \o "__" \o p.value, !.host = targetHost]
    ELSE [p EXCEPT !.host = targetHost]

\* the hosts of the parameters' locators are left as they are
afterParameters_KeepHost(o, targetHost) ==
    [o EXCEPT !.exec = targetHost,
              !.params = [k \in DOMAIN o.params |->
                             [replaceParameter(o.params[k], targetHost) EXCEPT !.host = o.params[k].host]]]

\* the run document after the executable and the parameters have been rewritten
afterParameters(o, targetHost) ==
    [o EXCEPT !.exec = targetHost,
              !.params = [k \in DOMAIN o.params |-> replaceParameter(o.params[k], targetHost)]]

\* the Name of the host of the event at position k is set; position 0 is undefined
\* and ends the call in a TypeError
setEventHost(r, k, targetHost) ==
    IF r.threw \/ k = 0
    THEN [omd |-> r.omd, threw |-> TRUE]
    ELSE [omd |-> [r.omd EXCEPT !.events[k].host = targetHost], threw |-> FALSE]

\* the document that the call leaves, and whether it ended in a TypeError
replaceHostname(o, targetHost) ==
    setEventHost(
        setEventHost([omd |-> afterParameters(o, targetHost), threw |-> FALSE],
                     getReadEvent(o), targetHost),
        getWriteEvent(o), targetHost)

\* omd.parseOMD(xmlString) on a new handler
InitOMD ==
    /\ PassIdle
    /\ IdentityIdle
    /\ RuntimeIdle
    /\ HookIdle
    /\ WorkbookIdle
    /\ FlowIdle
    /\ omd0 \in RunDocuments
    /\ omd = omd0
    /\ omdBefore = omd0
    /\ omdStatus = "parsed"
    /\ targetHostname = Undefined
    /\ calls = 0

afterCall(r) ==
    /\ omd' = r.omd
    /\ omdStatus' = IF r.threw THEN "threw" ELSE "replaced"

\* omd.replaceHostname(targetHost)
ReplaceHostname ==
    /\ omdStatus # "threw"
    /\ calls < MaxCalls
    /\ \E targetHost \in TargetHostnames :
          /\ afterCall(replaceHostname(omd, targetHost))
          /\ targetHostname' = targetHost
    /\ omdBefore' = omd
    /\ calls' = calls + 1
    /\ UNCHANGED omd0
    /\ UNCHANGED exceptOMD

\* omd.parseOMD(xmlString) once more, with the text first parsed
ParseOMD ==
    /\ calls > 0
    /\ omdStatus # "parsed"
    /\ omd' = omd0
    /\ omdBefore' = omd0
    /\ omdStatus' = "parsed"
    /\ targetHostname' = Undefined
    /\ UNCHANGED <<omd0, calls>>
    /\ UNCHANGED exceptOMD

NextOMD ==
    \/ ReplaceHostname
    \/ ParseOMD

SpecOMD == InitOMD /\ [][NextOMD]_vars

ConnectionStringNames == {"SourceConnectionString", "TargetConnectionString"}

\* C8: after replaceHostname(H), every actual parameter whose formal-parameter name is
\* exactly SourceConnectionString or TargetConnectionString has the value
\* <oldHost>__<oldValue>, oldHost the host of its own locator before the call, and the
\* locator host H.
C8_ConnectionStringPrefixed ==
    omdStatus = "replaced" =>
        \A k \in DOMAIN omd.params :
            omdBefore.params[k].formal \in ConnectionStringNames =>
                /\ omd.params[k].value = omdBefore.params[k].host \o "__" \o omdBefore.params[k].value
                /\ omd.params[k].host = targetHostname

\* a second call has returned: a connection-string parameter whose host before the call
\* (the target of the first call) differed from the new target
C8_Witness ==
    /\ omdStatus = "replaced"
    /\ calls = 2
    /\ \E k \in DOMAIN omd.params :
          /\ omd.params[k].formal = "SourceConnectionString"
          /\ omd.params[k].value = "hT__hA__v1"
          /\ omd.params[k].host = "hA"

\* C9: after replaceHostname(H), every actual parameter whose formal-parameter name is
\* neither SourceConnectionString nor TargetConnectionString has the locator host H and
\* its value unchanged.
C9_OtherParametersKeepValue ==
    omdStatus = "replaced" =>
        \A k \in DOMAIN omd.params :
            omdBefore.params[k].formal \notin ConnectionStringNames =>
                /\ omd.params[k].host = targetHostname
                /\ omd.params[k].value = omdBefore.params[k].value

\* a call has returned on a document with a parameter of another name and one whose name
\* differs from SourceConnectionString by case only, both with a host that was replaced
C9_Witness ==
    /\ omdStatus = "replaced"
    /\ Len(omd.params) = 2
    /\ omd.params[1] = ActualParameter("DSJobInvocationId", "hT", "v3")
    /\ omd.params[2] = ActualParameter("sourceconnectionstring", "hT", "v1")

\* C10: after replaceHostname(H) the host of the executable locator, of every actual
\* parameter's locator, and of the data-resource locator of every Read event and every
\* Write event equals H.
C10_HostReplacedEverywhere ==
    omdStatus = "replaced" =>
        /\ omd.exec = targetHostname
        /\ \A k \in DOMAIN omd.params : omd.params[k].host = targetHostname
        /\ \A k \in DOMAIN omd.events :
              omd.events[k].type \in {"Read", "Write"} => omd.events[k].host = targetHostname

\* replaceHostname has returned twice in a row on the document as parsed, the first time
\* with the hostname that the executable locator had before the second call
TwoCallsInARow ==
    /\ calls = 2
    /\ omdStatus = "replaced"
    /\ omdBefore = replaceHostname(omd0, omdBefore.exec).omd

\* C28: after replaceHostname(H1) and then replaceHostname(H2), every host that the call
\* rewrites (of the executable, of every actual parameter, of the first Read and the first
\* Write event) is H2, and the value of every SourceConnectionString or
\* TargetConnectionString parameter is H1__<original host>__<original value>: the second
\* call changes no host when H2 = H1, and prefixes the values once more.
C28_SecondCallPrefixesAgain ==
    TwoCallsInARow =>
        /\ omd.exec = targetHostname
        /\ omd.events[getReadEvent(omd)].host = targetHostname
        /\ omd.events[getWriteEvent(omd)].host = targetHostname
        /\ \A k \in DOMAIN omd.params :
              /\ omd.params[k].host = targetHostname
              /\ omd0.params[k].formal \in ConnectionStringNames =>
                    omd.params[k].value =
                        omdBefore.exec \o "__" \o omd0.params[k].host \o "__" \o omd0.params[k].value
        /\ targetHostname = omdBefore.exec =>
              /\ omd.exec = omdBefore.exec
              /\ \A k \in DOMAIN omd.events : omd.events[k].host = omdBefore.events[k].host
              /\ \A k \in DOMAIN omd.params :
                    /\ omd.params[k].host = omdBefore.params[k].host
                    /\ omd0.params[k].formal \in ConnectionStringNames =>
                          omd.params[k].value # omdBefore.params[k].value

\* the same hostname was given twice: the hosts are as after the first call, and the value
\* of a connection-string parameter has got a second prefix
C28_Witness ==
    /\ TwoCallsInARow
    /\ targetHostname = "hT"
    /\ omdBefore.exec = "hT"
    /\ omd0.exec = "hB"
    /\ \E k \in DOMAIN omd.params :
          /\ omd.params[k].formal = "TargetConnectionString"
          /\ omd.params[k].value = "hT__hB__v2"
          /\ omdBefore.params[k].value = "hB__v2"

\* C29: when replaceHostname(H) fails (the run document has no Read event or no Write
\* event), the document is left as it was before the call.
C29_FailedCallLeavesDocument ==
    omdStatus = "threw" => omd = omdBefore

-----------------------------------------------------------------------------
(* OMDHandler.getUniqueRuntimeIdentity.  Here a run document is the record of   *)
(* the design locator (project, job), the name of the job in the executable     *)
(* locator, the actual parameters (formal parameter name, Value), the events    *)
(* (Type, the host / store / schema / table components of the data-resource     *)
(* locator, ReferenceDC) and the data collections (Ident, column names), each   *)
(* list in document order.  An identity string is the sequence of its segments  *)
(* and "::" separators.                                                         *)

DataResourceLocator(host, store, schema, table) == [host |-> host, store |-> store, schema |-> schema, table |-> table]

RunEvent(type, locator, referenceDC) == [type |-> type, locator |-> locator, referenceDC |-> referenceDC]

RunParameter(formal, value) == [formal |-> formal, value |-> value]

\* a blank attribute value
Blank == " "

StoreNames       == {"db", Blank}
DataSchemaNames  == {"sch", Blank}

RuntimeParameterSections ==
    { <<RunParameter("SourceConnectionString", "cs1"), RunParameter("TargetConnectionString", "cs2")>>,
      <<RunParameter("SourceConnectionString", "a$$b"), RunParameter("TargetConnectionString", "cs2")>>,
      <<RunParameter("SourceConnectionString", "cs1"), RunParameter("TargetConnectionString", "cs2"),
        RunParameter("SourceConnectionString", "cs3")>>,
      <<RunParameter("TargetConnectionString", "cs2"), RunParameter("RowsLimit", "10")>> }

RuntimeCollections ==
    << [ident |-> "dc1", columns |-> <<"c1", "c2">>], [ident |-> "dc2", columns |-> <<"c3">>] >>

RuntimeEventSections(readLocator, writeLocator) ==
    { <<RunEvent("Read", readLocator, "dc1"), RunEvent("Write", writeLocator, "dc2")>>,
      <<RunEvent("Write", writeLocator, "dc2"), RunEvent("Read", readLocator, "dc1"),
        RunEvent("Read", writeLocator, "dc2")>> }

ExecutableNames == {"job.20170301", "job.20170302"}

RuntimeDocuments ==
    { [design |-> [project |-> "prj", job |-> "job"], executable |-> [project |-> "prj", job |-> x],
       params |-> ps, events |-> es, collections |-> RuntimeCollections] :
        x \in ExecutableNames, ps \in RuntimeParameterSections,
        es \in UNION { RuntimeEventSections(DataResourceLocator("hA", rs, rsch, "t1"),
                                            DataResourceLocator("hB", ws, wsch, "t2")) :
                          rs \in StoreNames, rsch \in DataSchemaNames,
                          ws \in StoreNames, wsch \in DataSchemaNames } }

\* idObj.parameters: the value of the last parameter of each name
parametersOf(params) ==
    [n \in { params[k].formal : k \in DOMAIN params } |->
        params[CHOOSE k \in DOMAIN params :
                  params[k].formal = n /\ \A m \in (k + 1)..Len(params) : params[m].formal # n].value]

\* a property of idObj.parameters in a string concatenation
parameterText(parameters, name) ==
    IF name \in DOMAIN parameters THEN parameters[name] ELSE "undefined"

\* the replacement patterns of String.prototype.replace in a replacement string: $$ is $
expandReplacement(text) == IF text = "a$$b" THEN "a$b" ELSE text

getDataResourceIdentity(locator) ==
    <<locator.host, "::", locator.store, "::", locator.schema, "::", locator.table>>

\* whether the text ":: ::" starts at position k of the identity
blankAt(identity, k) ==
    /\ k + 2 <= Len(identity)
    /\ identity[k] = "::" /\ identity[k + 1] = Blank /\ identity[k + 2] = "::"

\* sourceIdentity.replace(":: ::", "::" + value + "::"): the first occurrence only
replaceBlank(identity, value) ==
    IF \E k \in DOMAIN identity : blankAt(identity, k)
    THEN LET k == CHOOSE n \in DOMAIN identity :
                     blankAt(identity, n) /\ \A m \in 1..(n - 1) : ~blankAt(identity, m)
         IN  SubSeq(identity, 1, k) \o <<expandReplacement(value)>> \o SubSeq(identity, k + 2, Len(identity))
    ELSE identity

getDataCollectionColumns(collections, ident) ==
    collections[CHOOSE k \in DOMAIN collections :
                   collections[k].ident = ident /\ \A m \in 1..(k - 1) : collections[m].ident # ident].columns

\* the identity with project and job taken from the executable locator
getUniqueRuntimeIdentity_FromExecutable(run) ==
    [project |-> run.executable.project,
     job |-> run.executable.job,
     parameters |-> parametersOf(run.params),
     source |-> replaceBlank(getDataResourceIdentity(run.events[FirstEvent(run.events, "Read")].locator),
                             parameterText(parametersOf(run.params), "SourceConnectionString")),
     sourceColumns |-> getDataCollectionColumns(run.collections,
                             run.events[FirstEvent(run.events, "Read")].referenceDC),
     target |-> replaceBlank(getDataResourceIdentity(run.events[FirstEvent(run.events, "Write")].locator),
                             parameterText(parametersOf(run.params), "TargetConnectionString")),
     targetColumns |-> getDataCollectionColumns(run.collections,
                             run.events[FirstEvent(run.events, "Write")].referenceDC)]

getUniqueRuntimeIdentity(run) ==
    [project |-> run.design.project,
     job |-> run.design.job,
     parameters |-> parametersOf(run.params),
     source |-> replaceBlank(getDataResourceIdentity(run.events[FirstEvent(run.events, "Read")].locator),
                             parameterText(parametersOf(run.params), "SourceConnectionString")),
     sourceColumns |-> getDataCollectionColumns(run.collections,
                             run.events[FirstEvent(run.events, "Read")].referenceDC),
     target |-> replaceBlank(getDataResourceIdentity(run.events[FirstEvent(run.events, "Write")].locator),
                             parameterText(parametersOf(run.params), "TargetConnectionString")),
     targetColumns |-> getDataCollectionColumns(run.collections,
                             run.events[FirstEvent(run.events, "Write")].referenceDC)]

\* two run documents are parsed that agree on everything but the executable locator
InitRuntime ==
    /\ PassIdle
    /\ IdentityIdle
    /\ OMDIdle
    /\ HookIdle
    /\ WorkbookIdle
    /\ FlowIdle
    /\ runA \in RuntimeDocuments
    /\ runB \in { [runA EXCEPT !.executable.job = x] : x \in ExecutableNames }
    /\ identityA = NoIdentity
    /\ identityB = NoIdentity

\* getUniqueRuntimeIdentity() of the handler that parsed the first document
IdentifyA ==
    /\ identityA = NoIdentity
    /\ identityA' = getUniqueRuntimeIdentity(runA)
    /\ UNCHANGED <<runA, runB, identityB>>
    /\ UNCHANGED exceptRuntime

\* getUniqueRuntimeIdentity() of the handler that parsed the second document
IdentifyB ==
    /\ identityB = NoIdentity
    /\ identityB' = getUniqueRuntimeIdentity(runB)
    /\ UNCHANGED <<runA, runB, identityA>>
    /\ UNCHANGED exceptRuntime

NextRuntime ==
    \/ IdentifyA
    \/ IdentifyB

SpecRuntime == InitRuntime /\ [][NextRuntime]_vars

\* C11: two run documents that agree on the design locator, the actual parameters, the
\* Read / Write data-resource locators and the data collections yield identical results
\* from getUniqueRuntimeIdentity, whatever the names in the executable locator; project
\* and job are those of the design locator.
C11_IdentityIgnoresExecutable ==
    (identityA # NoIdentity /\ identityB # NoIdentity)
    => /\ identityA = identityB
       /\ identityA.project = runA.design.project
       /\ identityA.job = runA.design.job

\* both identities are computed for two documents whose executable names differ
C11_Witness ==
    /\ identityA # NoIdentity
    /\ identityB # NoIdentity
    /\ runA.executable.job # runB.executable.job
    /\ runA.executable.job # runA.design.job

\* what C12 states for the identity of one event: the value in the schema segment when
\* that segment is blank, the identity of the locator as it is otherwise
SchemaSubstituted(result, locator, value) ==
    IF locator.schema = Blank
    THEN result = <<locator.host, "::", locator.store, "::", value, "::", locator.table>>
    ELSE result = getDataResourceIdentity(locator)

\* C12: with a SourceConnectionString (TargetConnectionString) parameter, source (target)
\* is the identity of the Read (Write) event's data-resource locator with the parameter
\* value in exactly the schema segment when that segment is blank, and the identity
\* unchanged when it is not.
C12_SchemaSegmentSubstituted ==
    identityA # NoIdentity =>
        /\ "SourceConnectionString" \in DOMAIN identityA.parameters =>
              SchemaSubstituted(identityA.source, runA.events[FirstEvent(runA.events, "Read")].locator,
                                identityA.parameters["SourceConnectionString"])
        /\ "TargetConnectionString" \in DOMAIN identityA.parameters =>
              SchemaSubstituted(identityA.target, runA.events[FirstEvent(runA.events, "Write")].locator,
                                identityA.parameters["TargetConnectionString"])

-----------------------------------------------------------------------------
(* The script run again on the document that a run of the script has output *)

\* parseXML of the serialized document: every element is an element of the input
asParsed(d) ==
    [assets |-> [k \in DOMAIN d.assets |-> [d.assets[k] EXCEPT !.created = FALSE]],
     entry  |-> [k \in DOMAIN d.entry  |-> [d.entry[k]  EXCEPT !.created = FALSE]],
     exit   |-> [k \in DOMAIN d.exit   |-> [d.exit[k]   EXCEPT !.created = FALSE]],
     system |-> [k \in DOMAIN d.system |-> [d.system[k] EXCEPT !.created = FALSE]]]

\* the RID maps of the runs: the job column A, or A and B
CustomisedKeySets == { {RidA}, {RidA, RidB} }

\* documents with the single SYSTEM edge A -> B, X read into A and B written to Y
SingleEdgeDocuments ==
    { [assets |-> Assets(n), entry |-> en, exit |-> ex,
       system |-> <<Flow(<<"dsA">>, <<"dsB">>, <<"A-B">>)>>] :
        n \in {<<"t">>, <<"U">>}, en \in {<<EntryXA, EntryZC>>, <<EntryXA>>, <<EntryZC>>},
        ex \in {<<ExitBY, ExitDW>>, <<ExitBY>>} }

\* the state after a document with a single edge and the RID map have been read and parsed
InitPassAgain ==
    /\ IdentityIdle
    /\ OMDIdle
    /\ RuntimeIdle
    /\ HookIdle
    /\ WorkbookIdle
    /\ FlowIdle
    /\ nsMatch \in BOOLEAN
    /\ pivotColumns \in CustomisedKeySets
    /\ doc0 \in SingleEdgeDocuments
    /\ doc = doc0
    /\ bHasBeenCustomised = FALSE
    /\ id_gen = 0
    /\ ds_rid_gen = 0
    /\ hmObjectIdentitiesToIds = NoFunction
    /\ innerFlows = <<>>
    /\ pc = "start"
    /\ i = 0
    /\ aSourceIDs = <<>>
    /\ aTargetIDs = <<>>
    /\ si = 0
    /\ tj = 0
    /\ bSourceIsPivot = FALSE
    /\ bTargetIsPivot = FALSE
    /\ eSource = 0
    /\ passes = 0
    /\ sweeps = 0
    /\ prevRun = [end |-> "none", sweeps |-> 0, identities |-> {}]

\* a run of the script with a fresh cache and fresh counters on the document that the
\* run before it has output
RunOnOutput ==
    /\ pc = "customised"
    /\ passes < MaxPasses
    /\ doc0' = asParsed(doc)
    /\ doc' = doc0'
    /\ bHasBeenCustomised' = FALSE
    /\ id_gen' = 0
    /\ ds_rid_gen' = 0
    /\ hmObjectIdentitiesToIds' = NoFunction
    /\ sweeps' = 0
    /\ pc' = "start"
    /\ UNCHANGED exceptPass
    /\ UNCHANGED <<nsMatch, pivotColumns, innerFlows, i, aSourceIDs, aTargetIDs, si, tj,
                   bSourceIsPivot, bTargetIsPivot, eSource, passes, prevRun>>

NextPassAgain ==
    \/ NextPass
    \/ RunOnOutput

SpecPassAgain == InitPassAgain /\ [][NextPassAgain]_vars

localIdsDistinct(d) ==
    \A a, b \in DOMAIN d.assets : d.assets[a].ID = d.assets[b].ID => a = b

-----------------------------------------------------------------------------
(* The lineage flow extension hook (LineageCustomisationProvider) and the files it shares
   with the customisation script *)

MaxHookCalls == 2
MaxScriptRuns == 1

ParallelJob == "DataStageX.x_JOB_PARALLEL"

\* a flow XML text: the job it describes, its revision, whether all its characters are
\* ASCII, the class of its job asset, and whether it is the output of the script
FlowXML(job, rev, ascii, class) ==
    [job |-> job, rev |-> rev, ascii |-> ascii, class |-> class, customised |-> FALSE]

NoXML == [job |-> "", rev |-> 0, ascii |-> TRUE, class |-> "none", customised |-> FALSE]

\* the flows the hook is called with: two revisions of one parallel job, a parallel job whose
\* flow has non-ASCII characters, and a server job
ReceivedFlows ==
    { FlowXML("job1", 1, TRUE, ParallelJob),
      FlowXML("job1", 2, TRUE, ParallelJob),
      FlowXML("job2", 1, FALSE, ParallelJob),
      FlowXML("job3", 1, TRUE, "DataStageX.x_JOB_SERVER") }

FlowNames == {"prj__job1.xml", "prj__job2.xml"}

Charsets == {"UTF-8", "ISO-8859-1"}

Absent == [exists |-> FALSE, text |-> NoXML, charset |-> "none"]

\* String.getBytes(charset): ASCII text has the same bytes in every charset of Charsets
getBytes(xml, charset) ==
    [exists |-> TRUE, text |-> xml, charset |-> IF xml.ascii THEN "US-ASCII" ELSE charset]

\* FlowParser.readFile(path, StandardCharsets.UTF_8) and fs.readFileSync(path, 'utf8') of a
\* file that exists: bytes that are not UTF-8 decode to replacement characters
readFile(file) ==
    IF file.charset \in {"US-ASCII", "UTF-8"} THEN file.text ELSE [file.text EXCEPT !.rev = 0]

\* new FlowParser(xml): getAssetName of a missing asset dereferences null, and the
\* constructor does not catch the NullPointerException
parses(xml) == xml.class = ParallelJob

\* fp.getProjectName() + "__" + fp.getJobName() + ".xml"
getFlowFilename(xml) == "prj__" \o xml.job \o ".xml"

\* fh.getCustomisedXML() of the script that read xml
getCustomisedXML(xml) == [xml EXCEPT !.customised = TRUE]

TweakableFlow(xml, status, message) == [flowXML |-> xml, status |-> status, message |-> message]

NoTweakableFlow == TweakableFlow(NoXML, "none", "")

MsgRetained == "No customised lineage found for this job, default lineage retained."
MsgNoMapping == "Found customised lineage, but not flow used for the mapping -- cannot detect if job has changed, retaining default lineage."
MsgUsed == "Found and used customised lineage."
MsgChanged == "Found customised lineage, but flow has changed since mapping -- retaining default lineage."
MsgFatal == "Fatal problem occurred when attempting to find customised lineage."

\* the places of getTweakedFlow where an IOException can be thrown
IOFailures == {"none", "initProperties", "writeReceivedFlow", "readMapped", "readCustom"}

\* catch (IOException ex)
caught(xml) == TweakableFlow(xml, "FAILURE", MsgFatal)

\* Files.write(Paths.get(ORIGINAL_XML_LOCATION + sFilename), xmlToWrite.getBytes())
writeReceivedFlow(original, sFilename, xmlToWrite, charset) ==
    [original EXCEPT ![sFilename] = getBytes(xmlToWrite, charset)]

\* the custom file is used whether or not it was made from the flow received
checkMapped_Unchecked(fCustom, fMapped, xml, fail) ==
    IF ~fCustom.exists THEN TweakableFlow(xml, "OK", MsgRetained)
    ELSE IF fail = "readCustom" THEN caught(xml)
    ELSE TweakableFlow(readFile(fCustom), "OK", MsgUsed)

\* lines 87-121: what getTweakedFlow answers once the received flow is recorded
checkMapped(fCustom, fMapped, xml, fail) ==
    IF ~fCustom.exists THEN TweakableFlow(xml, "OK", MsgRetained)
    ELSE IF ~fMapped.exists THEN TweakableFlow(xml, "WARNING", MsgNoMapping)
    ELSE IF fail = "readMapped" THEN caught(xml)
    ELSE IF readFile(fMapped) # xml THEN TweakableFlow(xml, "WARNING", MsgChanged)
    ELSE IF fail = "readCustom" THEN caught(xml)
    ELSE TweakableFlow(readFile(fCustom), "OK", MsgUsed)

\* getTweakedFlow(originalFlow) as a whole: how it ends, the files of originalFlows and the
\* flow it returns
getTweakedFlow(original, source, output, charset, xml, fail) ==
    IF fail = "initProperties"
    THEN [end |-> "returned", original |-> original, tweaked |-> caught(xml)]
    ELSE IF ~parses(xml)
    THEN [end |-> "threw", original |-> original, tweaked |-> NoTweakableFlow]
    ELSE IF fail = "writeReceivedFlow"
    THEN [end |-> "returned", original |-> original, tweaked |-> caught(xml)]
    ELSE [end |-> "returned",
          original |-> writeReceivedFlow(original, getFlowFilename(xml), xml, charset),
          tweaked |-> checkMapped(output[getFlowFilename(xml)], source[getFlowFilename(xml)], xml, fail)]

\* the hook is installed, the three directories are empty
HookInstalled ==
    /\ originalFlows = [n \in FlowNames |-> Absent]
    /\ mappedSource = [n \in FlowNames |-> Absent]
    /\ mappedOutput = [n \in FlowNames |-> Absent]
    /\ defaultCharset \in Charsets
    /\ origXml = NoXML
    /\ tweakedFlow = NoTweakableFlow
    /\ hookPc = "idle"
    /\ hookCalls = 0
    /\ scriptPc = "idle"
    /\ xmldata = NoXML
    /\ scriptRuns = 0

InitHook ==
    /\ PassIdle
    /\ IdentityIdle
    /\ OMDIdle
    /\ RuntimeIdle
    /\ WorkbookIdle
    /\ FlowIdle
    /\ HookInstalled

\* one invocation of the hook by the catalog, from entry to return
GetTweakedFlow ==
    /\ hookCalls < MaxHookCalls
    /\ \E xml \in ReceivedFlows, fail \in IOFailures :
          LET r == getTweakedFlow(originalFlows, mappedSource, mappedOutput, defaultCharset, xml, fail)
          IN  /\ origXml' = xml
              /\ originalFlows' = r.original
              /\ tweakedFlow' = r.tweaked
              /\ hookPc' = r.end
    /\ hookCalls' = hookCalls + 1
    /\ UNCHANGED exceptHook
    /\ UNCHANGED <<mappedSource, mappedOutput, defaultCharset, scriptPc, xmldata, scriptRuns>>

\* one run of the script on a recorded flow that needs customisation: read the input,
\* outputCustomXML, copyOriginalToMapped
RunScript ==
    /\ scriptRuns < MaxScriptRuns
    /\ \E n \in FlowNames :
          /\ originalFlows[n].exists
          /\ xmldata' = readFile(originalFlows[n])
          /\ mappedOutput' = [mappedOutput EXCEPT ![n] = getBytes(getCustomisedXML(xmldata'), "UTF-8")]
          /\ mappedSource' = [mappedSource EXCEPT ![n] = originalFlows[n]]
    /\ scriptRuns' = scriptRuns + 1
    /\ UNCHANGED exceptHook
    /\ UNCHANGED <<originalFlows, defaultCharset, origXml, tweakedFlow, hookPc, hookCalls, scriptPc>>

\* customised lineage made by other means is placed into mappedFlows/output
PlaceCustomised ==
    /\ \E n \in FlowNames, xml \in ReceivedFlows :
          /\ parses(xml)
          /\ getFlowFilename(xml) = n
          /\ ~mappedOutput[n].exists
          /\ mappedOutput' = [mappedOutput EXCEPT ![n] = getBytes(getCustomisedXML(xml), "UTF-8")]
    /\ UNCHANGED exceptHook
    /\ UNCHANGED <<originalFlows, mappedSource, defaultCharset, origXml, tweakedFlow, hookPc,
                   hookCalls, scriptPc, xmldata, scriptRuns>>

NextHook ==
    \/ GetTweakedFlow
    \/ RunScript
    \/ PlaceCustomised

SpecHook == InitHook /\ [][NextHook]_vars

\* the three conditions on the files of the flow received: a customised file, a mapped
\* source of the same name, and a mapped source whose content is the flow received
CustomisedFits(xml) ==
    /\ getFlowFilename(xml) \in FlowNames
    /\ mappedOutput[getFlowFilename(xml)].exists
    /\ mappedSource[getFlowFilename(xml)].exists
    /\ readFile(mappedSource[getFlowFilename(xml)]) = xml

\* the flow returned is the content of the customised file
ReturnsCustomised(xml, tweaked) ==
    /\ getFlowFilename(xml) \in FlowNames
    /\ mappedOutput[getFlowFilename(xml)].exists
    /\ tweaked.flowXML = readFile(mappedOutput[getFlowFilename(xml)])

C18_StatusLeftOnEveryInvocation ==
    [][(hookCalls' = hookCalls + 1) =>
          /\ hookPc' = "returned"
          /\ tweakedFlow'.status \in {"OK", "WARNING", "FAILURE"}
          /\ tweakedFlow'.message # ""
          /\ tweakedFlow'.status = "FAILURE" => tweakedFlow'.flowXML = origXml'
          /\ tweakedFlow'.status # "FAILURE" =>
                /\ originalFlows'[getFlowFilename(origXml')] = getBytes(origXml', defaultCharset)
                /\ tweakedFlow'.status =
                      IF \/ ~mappedOutput[getFlowFilename(origXml')].exists
                         \/ ReturnsCustomised(origXml', tweakedFlow')
                      THEN "OK" ELSE "WARNING"]_vars

-----------------------------------------------------------------------------
(* The hook and the script as two processes on the shared directories: every file access
   of getTweakedFlow and of the script is a step of its own *)

hookLocals == <<defaultCharset, scriptPc, xmldata, scriptRuns>>

scriptLocals == <<defaultCharset, origXml, tweakedFlow, hookPc, hookCalls>>

HookRunning == hookPc \notin {"idle", "returned", "threw"}

\* lines 67-71: tweakedFlow starts as the flow received with status OK
EnterGetTweakedFlow ==
    /\ ~HookRunning
    /\ hookCalls < MaxHookCalls
    /\ \E xml \in ReceivedFlows :
          /\ origXml' = xml
          /\ tweakedFlow' = TweakableFlow(xml, "OK", "")
    /\ hookPc' = "initProperties"
    /\ hookCalls' = hookCalls + 1
    /\ UNCHANGED exceptHook
    /\ UNCHANGED <<originalFlows, mappedSource, mappedOutput>>
    /\ UNCHANGED hookLocals

\* lines 75-81: initProperties() and new FlowParser(origXml)
ParseReceivedFlow ==
    /\ hookPc = "initProperties"
    /\ IF parses(origXml)
       THEN /\ hookPc' = "writeReceivedFlow"
            /\ UNCHANGED tweakedFlow
       ELSE /\ hookPc' = "threw"
            /\ tweakedFlow' = NoTweakableFlow
    /\ UNCHANGED exceptHook
    /\ UNCHANGED <<originalFlows, mappedSource, mappedOutput, origXml, hookCalls>>
    /\ UNCHANGED hookLocals

\* line 84
WriteReceivedFlow ==
    /\ hookPc = "writeReceivedFlow"
    /\ originalFlows' = writeReceivedFlow(originalFlows, getFlowFilename(origXml), origXml, defaultCharset)
    /\ hookPc' = "fCustom.exists"
    /\ UNCHANGED exceptHook
    /\ UNCHANGED <<mappedSource, mappedOutput, origXml, tweakedFlow, hookCalls>>
    /\ UNCHANGED hookLocals

\* lines 87-93
CustomExists ==
    /\ hookPc = "fCustom.exists"
    /\ IF mappedOutput[getFlowFilename(origXml)].exists
       THEN /\ hookPc' = "fMapped.exists"
            /\ UNCHANGED tweakedFlow
       ELSE /\ hookPc' = "returned"
            /\ tweakedFlow' = TweakableFlow(origXml, "OK", MsgRetained)
    /\ UNCHANGED exceptHook
    /\ UNCHANGED <<originalFlows, mappedSource, mappedOutput, origXml, hookCalls>>
    /\ UNCHANGED hookLocals

\* lines 96-104
MappedExists ==
    /\ hookPc = "fMapped.exists"
    /\ IF mappedSource[getFlowFilename(origXml)].exists
       THEN /\ hookPc' = "readMapped"
            /\ UNCHANGED tweakedFlow
       ELSE /\ hookPc' = "returned"
            /\ tweakedFlow' = TweakableFlow(origXml, "WARNING", MsgNoMapping)
    /\ UNCHANGED exceptHook
    /\ UNCHANGED <<originalFlows, mappedSource, mappedOutput, origXml, hookCalls>>
    /\ UNCHANGED hookLocals

\* lines 109-117: xmlMapped.equals(origXml)
ReadMapped ==
    /\ hookPc = "readMapped"
    /\ IF readFile(mappedSource[getFlowFilename(origXml)]) = origXml
       THEN /\ hookPc' = "readCustom"
            /\ tweakedFlow' = TweakableFlow(origXml, "OK", MsgUsed)
       ELSE /\ hookPc' = "returned"
            /\ tweakedFlow' = TweakableFlow(origXml, "WARNING", MsgChanged)
    /\ UNCHANGED exceptHook
    /\ UNCHANGED <<originalFlows, mappedSource, mappedOutput, origXml, hookCalls>>
    /\ UNCHANGED hookLocals

\* line 113
ReadCustom ==
    /\ hookPc = "readCustom"
    /\ tweakedFlow' = [tweakedFlow EXCEPT !.flowXML = readFile(mappedOutput[getFlowFilename(origXml)])]
    /\ hookPc' = "returned"
    /\ UNCHANGED exceptHook
    /\ UNCHANGED <<originalFlows, mappedSource, mappedOutput, origXml, hookCalls>>
    /\ UNCHANGED hookLocals

\* lines 123-128: an IOException of initProperties, of the write or of one of the reads
CatchIOException ==
    /\ hookPc \in {"initProperties", "writeReceivedFlow", "readMapped", "readCustom"}
    /\ tweakedFlow' = caught(origXml)
    /\ hookPc' = "returned"
    /\ UNCHANGED exceptHook
    /\ UNCHANGED <<originalFlows, mappedSource, mappedOutput, origXml, hookCalls>>
    /\ UNCHANGED hookLocals

\* the script is started on a recorded flow: fs.readFileSync(inputFile, 'utf8')
ReadInput ==
    /\ scriptPc = "idle"
    /\ scriptRuns < MaxScriptRuns
    /\ \E n \in FlowNames :
          /\ originalFlows[n].exists
          /\ xmldata' = readFile(originalFlows[n])
    /\ scriptPc' = "sweep"
    /\ scriptRuns' = scriptRuns + 1
    /\ UNCHANGED exceptHook
    /\ UNCHANGED <<originalFlows, mappedSource, mappedOutput>>
    /\ UNCHANGED scriptLocals

\* the sweep found nothing to customise
RetainDefault ==
    /\ scriptPc = "sweep"
    /\ scriptPc' = "idle"
    /\ UNCHANGED exceptHook
    /\ UNCHANGED <<originalFlows, mappedSource, mappedOutput, xmldata, scriptRuns>>
    /\ UNCHANGED scriptLocals

\* outputCustomXML(sFlowFilename)
OutputCustomXML ==
    /\ scriptPc = "sweep"
    /\ mappedOutput' = [mappedOutput EXCEPT
                           ![getFlowFilename(xmldata)] = getBytes(getCustomisedXML(xmldata), "UTF-8")]
    /\ scriptPc' = "output"
    /\ UNCHANGED exceptHook
    /\ UNCHANGED <<originalFlows, mappedSource, xmldata, scriptRuns>>
    /\ UNCHANGED scriptLocals

\* copyOriginalToMapped(sFlowFilename)
CopyOriginalToMapped ==
    /\ scriptPc = "output"
    /\ mappedSource' = [mappedSource EXCEPT
                           ![getFlowFilename(xmldata)] = originalFlows[getFlowFilename(xmldata)]]
    /\ scriptPc' = "idle"
    /\ UNCHANGED exceptHook
    /\ UNCHANGED <<originalFlows, mappedOutput, xmldata, scriptRuns>>
    /\ UNCHANGED scriptLocals

NextHookRace ==
    \/ EnterGetTweakedFlow
    \/ ParseReceivedFlow
    \/ WriteReceivedFlow
    \/ CustomExists
    \/ MappedExists
    \/ ReadMapped
    \/ ReadCustom
    \/ CatchIOException
    \/ ReadInput
    \/ RetainDefault
    \/ OutputCustomXML
    \/ CopyOriginalToMapped

SpecHookRace == InitHook /\ [][NextHookRace]_vars

\* C17: under any interleaving of invocations of the hook with a run of the script,
\* whenever the hook answers "Found and used customised lineage." the customised XML it
\* returns was made by the script from a flow document identical to the one it received.
C17_CustomisedOnlyIfUnchanged ==
    (hookPc = "returned" /\ tweakedFlow.message = MsgUsed) =>
        tweakedFlow.flowXML = getCustomisedXML(origXml)

-----------------------------------------------------------------------------
(* LineageWorkbook.populateWithExistingAssets and the callbacks of its catalog requests *)

MaxPopulateCalls == 2

\* err === null
NoError == "null"

\* what the catalog client reports when a request fails
RequestErrors == {"ECONNREFUSED", "HTTP 500"}

\* AssetTypeFactory.getDataAssetTypes()
getDataAssetTypes == <<"File", "Database", "Data File">>

\* the object assetNameToAssetType of AssetTypeFactory.getAssetTypeFromAssetName
assetNameToAssetType ==
    [n \in {"Applications", "Files", "Databases", "Data Files"} |->
        CASE n = "Applications" -> "application"
          [] n = "Files" -> "file"
          [] n = "Databases" -> "database"
          [] n = "Data Files" -> "data_file"]

\* assetNameToAssetType.hasOwnProperty(assetName): the name is known, or the method throws
hasAssetType(assetName) == assetName \in DOMAIN assetNameToAssetType

AssetTypes == {"application", "file", "database", "data_file"}

\* the worksheet populateWithExistingAssets hands to _addExistingAssets for an asset type
worksheetOf(assetType) == IF assetType = "application" THEN "Applications" ELSE "Data Containers"

\* the position of the first data asset type name for which getAssetTypeFromAssetName
\* throws, or one past the last name
firstUnknown(names) ==
    IF \E k \in DOMAIN names : ~hasAssetType(names[k])
    THEN CHOOSE k \in DOMAIN names :
            /\ ~hasAssetType(names[k])
            /\ \A m \in 1..(k - 1) : hasAssetType(names[m])
    ELSE Len(names) + 1

\* the asset types for which populateWithExistingAssets calls _addExistingAssets before it
\* returns or throws
searchedTypes(names) ==
    {"application"} \cup
    { assetNameToAssetType[names[k]] : k \in 1..(firstUnknown(names) - 1) }

Request(call, assetType, stage) == [call |-> call, assetType |-> assetType, stage |-> stage]

\* the names of the assets of each type in the catalog
Catalogs ==
    { [t \in AssetTypes |-> IF t = "application" THEN apps ELSE IF t = "database" THEN <<"db1">> ELSE <<>>] :
        apps \in { <<>>, <<"app1">>, <<"app1", "app2">>, <<"app2", "app1">> } }

InitWorkbook ==
    /\ PassIdle
    /\ FlowIdle
    /\ IdentityIdle
    /\ OMDIdle
    /\ RuntimeIdle
    /\ HookIdle
    /\ catalog \in Catalogs
    /\ wsRows = [w \in {"Applications", "Data Containers"} |-> <<>>]
    /\ requests = {}
    /\ writtenAssetTypes = [c \in 1..MaxPopulateCalls |-> <<>>]
    /\ completions = <<>>
    /\ popStatus = "none"
    /\ popCalls = 0
    /\ failures = {}

\* populateWithExistingAssets(igcrest, callback): one search is issued per call of
\* _addExistingAssets; the call throws when a data asset type name is unknown
PopulateWithExistingAssets ==
    /\ popCalls < MaxPopulateCalls
    /\ popCalls' = popCalls + 1
    /\ requests' = requests \cup
                      { Request(popCalls', t, "search") : t \in searchedTypes(getDataAssetTypes) }
    /\ popStatus' = IF firstUnknown(getDataAssetTypes) > Len(getDataAssetTypes)
                    THEN "returned" ELSE "threw"
    /\ UNCHANGED exceptWorkbook
    /\ UNCHANGED <<catalog, wsRows, writtenAssetTypes, completions, failures>>

\* the callback of igcrest.search (lines 612-651): on an error the local err is set and
\* nothing is called; otherwise getAllPages is requested
SearchCallback ==
    /\ \E r \in requests, errSearch \in {NoError} \cup RequestErrors :
          /\ r.stage = "search"
          /\ IF errSearch # NoError
             THEN /\ requests' = requests \ {r}
                  /\ failures' = failures \cup {r}
             ELSE /\ requests' = (requests \ {r}) \cup {Request(r.call, r.assetType, "getAllPages")}
                  /\ UNCHANGED failures
    /\ UNCHANGED exceptWorkbook
    /\ UNCHANGED <<catalog, wsRows, writtenAssetTypes, completions, popStatus, popCalls>>

\* _handleAnyErrorOnPopulation(err, writtenAssetTypes, callback)
handleAnyErrorOnPopulation(call, err, written) ==
    IF Len(written) = Len(getDataAssetTypes) + 1 \/ err # NoError
    THEN Append(completions, [call |-> call, err |-> err])
    ELSE completions

\* the callback of igcrest.getAllPages (lines 617-648): the rows are added unless the
\* retrieval failed, the asset type is pushed and the completion is checked
GetAllPagesCallback ==
    /\ \E r \in requests, errGetAllPages \in {NoError} \cup RequestErrors :
          /\ r.stage = "getAllPages"
          /\ requests' = requests \ {r}
          /\ writtenAssetTypes' = [writtenAssetTypes EXCEPT ![r.call] = Append(@, r.assetType)]
          /\ IF errGetAllPages # NoError
             THEN /\ failures' = failures \cup {r}
                  /\ UNCHANGED wsRows
                  /\ completions' = handleAnyErrorOnPopulation(r.call,
                                        "Unable to get all assets: " \o errGetAllPages,
                                        writtenAssetTypes'[r.call])
             ELSE /\ UNCHANGED failures
                  /\ wsRows' = [wsRows EXCEPT ![worksheetOf(r.assetType)] = @ \o catalog[r.assetType]]
                  /\ completions' = handleAnyErrorOnPopulation(r.call, NoError, writtenAssetTypes'[r.call])
    /\ UNCHANGED exceptWorkbook
    /\ UNCHANGED <<catalog, popStatus, popCalls>>

NextWorkbook ==
    \/ PopulateWithExistingAssets
    \/ SearchCallback
    \/ GetAllPagesCallback

SpecWorkbook == InitWorkbook /\ [][NextWorkbook]_vars

\* C19: when the search or the page retrieval issued by populateWithExistingAssets fails
\* for an asset type, then, once every request of that call has been answered, the
\* completion callback has been invoked with a non-null error.
C19_FailurePropagated ==
    \A f \in failures :
        (\A r \in requests : r.call # f.call) =>
            \E k \in DOMAIN completions :
                /\ completions[k].call = f.call
                /\ completions[k].err # NoError

\* assetTypeToProperties.hasOwnProperty(assetType): getAssetProperties returns the
\* properties of the type, or throws
hasAssetProperties(assetType) == assetType \in {"application", "file", "database", "data_file"}

\* C30: the catalog of asset types is consistent with itself: for every name that
\* getDataAssetTypes returns, getAssetTypeFromAssetName knows the name and returns a type
\* that getAssetProperties knows, so that a call of populateWithExistingAssets returns
\* with a search issued for the application type and for every data asset type.
C30_AssetTypeCatalogConsistent ==
    popCalls > 0 =>
        /\ popStatus = "returned"
        /\ \A k \in DOMAIN getDataAssetTypes :
              /\ hasAssetType(getDataAssetTypes[k])
              /\ hasAssetProperties(assetNameToAssetType[getDataAssetTypes[k]])
        /\ Cardinality(searchedTypes(getDataAssetTypes)) = Len(getDataAssetTypes) + 1

-----------------------------------------------------------------------------
(* FlowHandler.addFlow called on a section of a flow document, with and without an
   existing flow, appending and replacing *)

MaxSectionFlows == 2
MaxFlowCalls == 2

\* blank-joined id lists and comments that a caller passes
FlowIdLists == { <<"dsA">>, <<"dsB", "dsD">> }
FlowComments == { <<"[", "X", "]">> }

\* the flows of a section of a parsed document
SectionFlows ==
    { Flow(s, t, <<"A-B">>) : s \in { <<"dsC">> }, t \in FlowIdLists }

FlowSections == UNION { [1..n -> SectionFlows] : n \in 0..MaxSectionFlows }

InitFlow ==
    /\ PassIdle
    /\ IdentityIdle
    /\ OMDIdle
    /\ RuntimeIdle
    /\ HookIdle
    /\ WorkbookIdle
    /\ flowSection \in FlowSections
    /\ flowBefore = flowSection
    /\ flowArgs = NoFlowArgs
    /\ flowCalls = 0

\* fh.addFlow(flowsSection, existingFlow, sourceIDs, targetIDs, comment, bReplace), the
\* existing flow being a flow of the section or undefined
AddFlow ==
    /\ flowCalls < MaxFlowCalls
    /\ \E existingFlow \in 0..Len(flowSection), sourceIDs \in FlowIdLists, targetIDs \in FlowIdLists,
          comment \in FlowComments, bReplace \in BOOLEAN :
          /\ flowArgs' = [existingFlow |-> existingFlow, sourceIDs |-> sourceIDs,
                          targetIDs |-> targetIDs, comment |-> comment, bReplace |-> bReplace]
          /\ flowSection' = addFlow(flowSection, existingFlow, sourceIDs, targetIDs, comment, bReplace)
    /\ flowBefore' = flowSection
    /\ flowCalls' = flowCalls + 1
    /\ UNCHANGED exceptFlow

NextFlow == AddFlow

SpecFlow == InitFlow /\ [][NextFlow]_vars

\* C25: addFlow given an existing flow changes neither that flow's sourceIDs nor the
\* number of flows nor any other flow; with bReplace false the flow's targetIDs become the
\* old targetIDs, a blank and the new ones and its comment the old comment, " and " and
\* the new one; with bReplace true both are overwritten with the new values.  Given no
\* existing flow it appends exactly one flow with the given sourceIDs, targetIDs and
\* comment and changes no other flow.
C25_AddFlowEffect ==
    flowCalls > 0 =>
        LET e == flowArgs.existingFlow
        IN  IF e # 0
            THEN /\ Len(flowSection) = Len(flowBefore)
                 /\ \A k \in DOMAIN flowBefore : k # e => flowSection[k] = flowBefore[k]
                 /\ flowSection[e].sourceIDs = flowBefore[e].sourceIDs
                 /\ flowSection[e].created = flowBefore[e].created
                 /\ flowSection[e].targetIDs =
                       IF flowArgs.bReplace THEN flowArgs.targetIDs
                       ELSE flowBefore[e].targetIDs \o flowArgs.targetIDs
                 /\ flowSection[e].comment =
                       IF flowArgs.bReplace THEN flowArgs.comment
                       ELSE flowBefore[e].comment \o <<" and ">> \o flowArgs.comment
            ELSE /\ Len(flowSection) = Len(flowBefore) + 1
                 /\ \A k \in DOMAIN flowBefore : flowSection[k] = flowBefore[k]
                 /\ flowSection[Len(flowSection)].sourceIDs = flowArgs.sourceIDs
                 /\ flowSection[Len(flowSection)].targetIDs = flowArgs.targetIDs
                 /\ flowSection[Len(flowSection)].comment = flowArgs.comment

\* a flow that an earlier call has appended to has been replaced
C25_Witness ==
    /\ flowCalls = 2
    /\ flowArgs.existingFlow # 0
    /\ flowArgs.bReplace
    /\ Len(flowBefore[flowArgs.existingFlow].targetIDs) > 2
    /\ flowSection[flowArgs.existingFlow].targetIDs = flowArgs.targetIDs

=============================================================================
